---------------------------- MODULE Spec2Model ----------------------------
(***************************************************************************)
(* A model of the virtio-balloon device back-end of cloud-hypervisor       *)
(* (virtio-devices/src/balloon.rs): the device facade (new, ack_features,  *)
(* write_config, resize, state, activate) and the worker that drains the   *)
(* inflate, deflate, statistics, reporting and heterogeneous queues.       *)
(***************************************************************************)
EXTENDS Integers, Sequences, FiniteSets, TLC

VARIABLES
    avail_features,         \* VirtioCommon.avail_features, as a set of bit numbers
    acked_features,         \* VirtioCommon.acked_features, as a set of bit numbers
    config,                 \* VirtioBalloonConfig, as its 24 bytes (repr(C), little-endian)
    paused,                 \* VirtioCommon.paused
    queue_sizes,            \* VirtioCommon.queue_sizes
    interrupt_cb,           \* Balloon.interrupt_cb
    stats_polling_interval, \* Balloon.stats_polling_interval
    counters,               \* BalloonCounters, tag -> value
    page_size,              \* what get_page_size() returns on this host
    pump_stops,             \* whether EpollHelper::run ends its loop on a handler error
    snapshot,               \* the BalloonState taken by the last snapshot
    handler,                \* the BalloonEpollHandler moved into the worker thread
    queues,                 \* handler.queues: per queue its available and used ring
    registered,             \* the events the worker added to its EpollHelper
    ready,                  \* the queue eventfds that are readable
    timer,                  \* the statistics TimerFd
    worker,                 \* the worker thread
    common,                 \* VirtioCommon: interrupt_cb, kill_evt, pause_evt, epoll_threads
    next_head,              \* the head index the guest gives its next chain
    guest_queue,            \* the queue the guest driver submits its chains to
    last                    \* the most recent step: its operation and, for a dispatch,
                            \* what it started from and what it did, in order

vars == <<avail_features, acked_features, config, paused, queue_sizes, interrupt_cb,
          stats_polling_interval, counters, page_size, pump_stops, snapshot, handler,
          queues, registered, ready, timer, worker, common, next_head, guest_queue,
          last>>

devVars == <<avail_features, acked_features, config, paused, queue_sizes, interrupt_cb,
             stats_polling_interval, common>>

workerVars == <<handler, queues, registered, ready, timer, worker, counters, next_head,
                guest_queue>>

\* Option<T>
None == [some |-> FALSE]
Some(v) == [some |-> TRUE, val |-> v]

(***************************************************************************)
(* Constants of balloon.rs                                                 *)
(***************************************************************************)
QUEUE_SIZE == 128
STATS_QUEUE_SIZE == 32
REPORTING_QUEUE_SIZE == 32
MIN_NUM_QUEUES == 2
VIRTIO_BALLOON_PFN_SHIFT == 12
VIRTIO_F_VERSION_1 == 32
VIRTIO_BALLOON_F_STATS_VQ == 1
VIRTIO_BALLOON_F_DEFLATE_ON_OOM == 2
VIRTIO_BALLOON_F_REPORTING == 5
VIRTIO_BALLOON_F_HETERO_MEM == 6
CONFIG_ACTUAL_OFFSET == 4
CONFIG_HETERO_ACTUAL_OFFSET == 20
CONFIG_ACTUAL_SIZE == 4
CONFIG_NUM_PAGES_OFFSET == 0
CONFIG_NUM_HETERO_PAGES_OFFSET == 16

\* 1 << n and x >> n on the values the model uses
Shl(x, n) == x * (2 ^ n)
Shr(x, n) == x \div (2 ^ n)
Min(a, b) == IF a < b THEN a ELSE b

(***************************************************************************)
(* The configuration record as bytes                                       *)
(***************************************************************************)
\* (x as u32).to_le_bytes(): the low 32 bits of x, least significant byte first
AsU32Bytes(x) ==
    <<x % 256, (x \div 256) % 256, (x \div 65536) % 256, (x \div 16777216) % 256>>

\* the four bytes of the field at byte offset off
Field(cfg, off) == SubSeq(cfg, off + 1, off + 4)

\* cfg with the four bytes at byte offset off replaced
WithField(cfg, off, bytes) ==
    [i \in 1..Len(cfg) |-> IF i > off /\ i <= off + 4 THEN bytes[i - off] ELSE cfg[i]]

\* VirtioBalloonConfig::default(): six zeroed u32
DefaultConfig == [i \in 1..24 |-> 0]

(***************************************************************************)
(* Balloon::new                                                            *)
(***************************************************************************)
NewQueueSizes(interval, free_page_reporting, heterogeneous_memory) ==
    [i \in 1..MIN_NUM_QUEUES |-> QUEUE_SIZE]
        \o (IF interval.some THEN <<STATS_QUEUE_SIZE>> ELSE <<>>)
        \o (IF free_page_reporting THEN <<REPORTING_QUEUE_SIZE>> ELSE <<>>)
        \o (IF heterogeneous_memory THEN <<QUEUE_SIZE, QUEUE_SIZE>> ELSE <<>>)

NewFresh(size, interval, deflate_on_oom, free_page_reporting, heterogeneous_memory) ==
    [avail_features |->
        {VIRTIO_F_VERSION_1}
            \cup (IF interval.some THEN {VIRTIO_BALLOON_F_STATS_VQ} ELSE {})
            \cup (IF deflate_on_oom THEN {VIRTIO_BALLOON_F_DEFLATE_ON_OOM} ELSE {})
            \cup (IF free_page_reporting THEN {VIRTIO_BALLOON_F_REPORTING} ELSE {})
            \cup (IF heterogeneous_memory THEN {VIRTIO_BALLOON_F_HETERO_MEM} ELSE {}),
     acked_features |-> {},
     config |->
        WithField(
            WithField(DefaultConfig, CONFIG_NUM_PAGES_OFFSET,
                      AsU32Bytes(Shr(size[1], VIRTIO_BALLOON_PFN_SHIFT))),
            CONFIG_NUM_HETERO_PAGES_OFFSET,
            AsU32Bytes(Shr(size[2], VIRTIO_BALLOON_PFN_SHIFT))),
     paused |-> FALSE]

\* a faulty restore, which offers the features of the arguments
NewRestoredOffersOptions(size, interval, deflate_on_oom, free_page_reporting, heterogeneous_memory, state) ==
    [avail_features |->
        NewFresh(size, interval, deflate_on_oom, free_page_reporting,
                 heterogeneous_memory).avail_features,
     acked_features |-> state.val.acked_features,
     config |-> state.val.config,
     paused |-> TRUE]

\* a faulty restore, which does not mark the device paused
NewRestored_not_paused(size, interval, deflate_on_oom, free_page_reporting, heterogeneous_memory, state) ==
    [avail_features |-> state.val.avail_features,
     acked_features |-> state.val.acked_features,
     config |-> state.val.config,
     paused |-> FALSE]

NewRestored(size, interval, deflate_on_oom, free_page_reporting, heterogeneous_memory, state) ==
    [avail_features |-> state.val.avail_features,
     acked_features |-> state.val.acked_features,
     config |-> state.val.config,
     paused |-> TRUE]

New(size, interval, deflate_on_oom, free_page_reporting, heterogeneous_memory, state) ==
    LET d == IF state.some
             THEN NewRestored(size, interval, deflate_on_oom, free_page_reporting,
                              heterogeneous_memory, state)
             ELSE NewFresh(size, interval, deflate_on_oom, free_page_reporting,
                           heterogeneous_memory)
    IN  [avail_features |-> d.avail_features,
         acked_features |-> d.acked_features,
         config |-> d.config,
         paused |-> d.paused,
         queue_sizes |-> NewQueueSizes(interval, free_page_reporting, heterogeneous_memory),
         interrupt_cb |-> None,
         stats_polling_interval |-> interval]

\* Balloon::state
State ==
    [avail_features |-> avail_features,
     acked_features |-> acked_features,
     config |-> config]

(***************************************************************************)
(* VirtioCommon (lib of the same crate): feature negotiation               *)
(***************************************************************************)
\* VirtioCommon::ack_features: bits the device did not offer are not acknowledged
CommonAckFeatures(avail, acked, value) == acked \cup (value \cap avail)

\* VirtioCommon::feature_acked
feature_acked(feature) == feature \in acked_features

(***************************************************************************)
(* Balloon::write_config                                                   *)
(***************************************************************************)
\* a faulty write_config, which accepts four bytes at any offset
write_config_any_offset(cfg, offset, data) ==
    IF Len(data) # CONFIG_ACTUAL_SIZE \/ offset + Len(data) > Len(cfg)
    THEN cfg
    ELSE [i \in 1..Len(cfg) |->
            IF i > offset /\ i - offset <= Len(data) THEN data[i - offset] ELSE cfg[i]]

write_config(cfg, offset, data) ==
    IF (offset # CONFIG_ACTUAL_OFFSET /\ offset # CONFIG_HETERO_ACTUAL_OFFSET)
        \/ Len(data) # CONFIG_ACTUAL_SIZE
    THEN cfg
    ELSE LET config_len == Len(cfg)
             data_len == Len(data)
         IN  IF offset + data_len > config_len
             THEN cfg
             ELSE LET end == offset + config_len
                      stop == Min(end, config_len)
                  IN  \* write_all into config[offset..stop]
                      [i \in 1..config_len |->
                          IF i > offset /\ i <= stop /\ i - offset <= data_len
                          THEN data[i - offset]
                          ELSE cfg[i]]

\* a faulty resize, which also clears the guest's `actual`
resize_config_clears_actual(cfg, size) ==
    WithField(
        WithField(
            WithField(cfg, CONFIG_NUM_PAGES_OFFSET,
                      AsU32Bytes(Shr(size[1], VIRTIO_BALLOON_PFN_SHIFT))),
            CONFIG_NUM_HETERO_PAGES_OFFSET,
            AsU32Bytes(Shr(size[2], VIRTIO_BALLOON_PFN_SHIFT))),
        CONFIG_ACTUAL_OFFSET, AsU32Bytes(0))

\* Balloon::resize, the configuration part
resize_config(cfg, size) ==
    WithField(
        WithField(cfg, CONFIG_NUM_PAGES_OFFSET,
                  AsU32Bytes(Shr(size[1], VIRTIO_BALLOON_PFN_SHIFT))),
        CONFIG_NUM_HETERO_PAGES_OFFSET,
        AsU32Bytes(Shr(size[2], VIRTIO_BALLOON_PFN_SHIFT)))

(***************************************************************************)
(* Guest memory (GuestMemoryMmap): an anonymous and a file-backed region    *)
(***************************************************************************)
Regions ==
    <<[start |-> 1048576, len |-> 8192, host |-> 268435456, file |-> None],
      [start |-> 2097152, len |-> 8192, host |-> 536870912,
       file |-> Some([fd |-> 7, start |-> 32768])]>>

\* GuestMemory::find_region
find_region(addr) ==
    LET hit == {i \in 1..Len(Regions) :
                    addr >= Regions[i].start /\ addr < Regions[i].start + Regions[i].len}
    IN  IF hit = {} THEN None ELSE Some(Regions[CHOOSE i \in hit : TRUE])

\* GuestMemory::get_host_address
get_host_address(addr) ==
    LET r == find_region(addr)
    IN  IF r.some THEN Some(r.val.host + (addr - r.val.start)) ELSE None

\* vm_allocator::page_size::align_page_size_down: addr & !(page_size - 1)
align_page_size_down(addr) == addr - (addr % page_size)

(***************************************************************************)
(* u32 values as two 16-bit halves: used-ring lengths and their sums       *)
(***************************************************************************)
Half == 2 ^ 16
U32(n) == [hi |-> (n \div Half) % Half, lo |-> n % Half]
\* a + n overflows u32
U32AddOverflows(a, n) == a.hi + (n \div Half) + ((a.lo + (n % Half)) \div Half) >= Half
\* a.wrapping_add(n)
U32WrappingAdd(a, n) ==
    [hi |-> (a.hi + (n \div Half) + ((a.lo + (n % Half)) \div Half)) % Half,
     lo |-> (a.lo + (n % Half)) % Half]

(***************************************************************************)
(* Errors (enum Error) and the state a drain threads through               *)
(***************************************************************************)
Ok == [kind |-> "Ok"]
Err(kind) == [kind |-> kind]
\* not a value of Error: the thread panicked (an overflow check of the build)
Panic == [kind |-> "Panic"]

Fail(s, e) == [s EXCEPT !.err = e]

\* A call out of the handler that can fail.  It is not reached once an error
\* was returned (`?`); else it is made (and logged) and fails when it is the
\* call the environment lets fail.
ExtCall(s, ev, e) ==
    IF s.err # Ok
    THEN s
    ELSE [s EXCEPT !.calls = s.calls + 1,
                   !.log = Append(@, ev @@ [ok |-> s.calls + 1 # s.fail_at]),
                   !.err = IF s.calls + 1 # s.fail_at THEN @ ELSE e]

\* BalloonEpollHandler::signal
signal(s, int_type) ==
    ExtCall(s, [e |-> "trigger", int |-> int_type], Err("FailedSignal"))

\* a faulty add_used, which reports no length
add_used_no_len(s, head_index, len) ==
    IF s.err # Ok \/ s.calls + 1 = s.fail_at
    THEN ExtCall(s, [e |-> "add_used", id |-> head_index, len |-> len], Err("QueueAddUsed"))
    ELSE [ExtCall(s, [e |-> "add_used", id |-> head_index, len |-> len],
                  Err("QueueAddUsed"))
            EXCEPT !.used = Append(@, [id |-> head_index, len |-> U32(0)])]

\* Queue::add_used, not reached once an error was returned
add_used(s, head_index, len) ==
    IF s.err # Ok \/ s.calls + 1 = s.fail_at
    THEN ExtCall(s, [e |-> "add_used", id |-> head_index, len |-> len], Err("QueueAddUsed"))
    ELSE [ExtCall(s, [e |-> "add_used", id |-> head_index, len |-> len],
                  Err("QueueAddUsed"))
            EXCEPT !.used = Append(@, [id |-> head_index, len |-> len])]

(***************************************************************************)
(* Memory advice primitives                                                *)
(***************************************************************************)
\* BalloonEpollHandler::advise_memory_range, not reached once an error was
\* returned
advise_memory_range(s, range_base, range_len, advice) ==
    IF s.err # Ok
    THEN s
    ELSE IF ~get_host_address(range_base).some
    THEN Fail(s, Err("GuestMemory"))
    ELSE ExtCall(s, [e |-> "madvise", addr |-> get_host_address(range_base).val,
                     len |-> range_len, advice |-> advice],
                 Err("MadviseFail"))

\* the fallocate64 of release_memory_range, when the region has a file
punch_hole(s, region, range_base, range_len) ==
    IF ~region.file.some
    THEN s
    ELSE ExtCall(s, [e |-> "fallocate64",
                     fd |-> region.file.val.fd,
                     mode |-> "PUNCH_HOLE|KEEP_SIZE",
                     offset |-> (range_base - region.start) + region.file.val.start,
                     len |-> range_len],
                 Err("FallocateFail"))

\* a faulty release_memory_range, which advises before it punches the hole
release_memory_range_advise_first(s, range_base, range_len) ==
    IF s.err # Ok
    THEN s
    ELSE IF ~find_region(range_base).some
    THEN Fail(s, Err("GuestMemory"))
    ELSE punch_hole(
             advise_memory_range(s, range_base, range_len, "MADV_DONTNEED"),
             find_region(range_base).val, range_base, range_len)

\* BalloonEpollHandler::release_memory_range, not reached once an error was
\* returned
release_memory_range(s, range_base, range_len) ==
    IF s.err # Ok
    THEN s
    ELSE IF ~find_region(range_base).some
    THEN Fail(s, Err("GuestMemory"))
    ELSE advise_memory_range(
             punch_hole(s, find_region(range_base).val, range_base, range_len),
             range_base, range_len, "MADV_DONTNEED")

(***************************************************************************)
(* Descriptor chains.  A chain is [head, descs, data]: the index of its     *)
(* head, its descriptors [addr, len, wo] and the objects the guest memory   *)
(* holds at the head's address (read_obj past them is outside the memory).  *)
(***************************************************************************)
\* Bytes::read_obj of the object of `size` bytes at the head's addr + offset
read_obj(chain, offset, size) ==
    IF (offset \div size) + 1 <= Len(chain.data)
    THEN Some(chain.data[(offset \div size) + 1])
    ELSE None

Inflate == "Inflate"
Deflate == "Deflate"
Stats == "Stats"
Reporting == "Reporting"
HeteroInflate == "HeteroInflate"
HeteroDeflate == "HeteroDeflate"
BalloonVq == {Inflate, Deflate, Stats, Reporting, HeteroInflate, HeteroDeflate}

\* size_of::<u32>() and size_of::<BalloonStat>() (packed u16 + u64)
PfnChunkSize == 4
StatChunkSize == 10

\* BalloonCounters::get: the slot of a tag
CountersGet(tag) == IF tag \in 0..15 THEN Some(tag) ELSE None

\* Queue::pop_descriptor_chain: the next chain of the available ring, logged
Pop(s) ==
    [s EXCEPT !.avail = Tail(@), !.log = Append(@, [e |-> "pop", chain |-> Head(s.avail)])]

\* used_descs = true, not reached once an error was returned
set_used_descs(s) == IF s.err # Ok THEN s ELSE [s EXCEPT !.used_descs = TRUE]

\* a faulty end of the drains, which never signals
signal_never(s, queue_index) == s

\* the end of process_queue and process_reporting_queue: one queue interrupt
\* when a chain was used
signal_if_used(s, queue_index) ==
    IF s.err # Ok
    THEN s
    ELSE IF s.used_descs
    THEN signal(s, [type |-> "Queue", index |-> queue_index])
    ELSE s

(***************************************************************************)
(* BalloonEpollHandler::process_queue                                      *)
(***************************************************************************)
\* a faulty inner loop body, which releases the page on every queue
process_pfn_always_release(s, queue, pfn) ==
    IF ~pfn.some
    THEN Fail(s, Err("GuestMemory"))
    ELSE release_memory_range(
             s, align_page_size_down(Shl(pfn.val, VIRTIO_BALLOON_PFN_SHIFT)), page_size)

\* the body of the inner loop: the memory operation for one PFN
process_pfn(s, queue, pfn) ==
    IF ~pfn.some
    THEN Fail(s, Err("GuestMemory"))
    ELSE CASE queue \in {Inflate, HeteroInflate} ->
                  release_memory_range(
                      s, align_page_size_down(Shl(pfn.val, VIRTIO_BALLOON_PFN_SHIFT)),
                      page_size)
           [] queue \in {Deflate, HeteroDeflate} ->
                  advise_memory_range(
                      s, align_page_size_down(Shl(pfn.val, VIRTIO_BALLOON_PFN_SHIFT)),
                      page_size, "MADV_WILLNEED")
           [] OTHER ->
                  Fail(s, [kind |-> "InvalidQueueIndex", index |-> s.queue_index])

\* the inner loop over the PFNs of the head descriptor
RECURSIVE process_queue_pfns(_, _, _, _, _)
process_queue_pfns(s, queue, chain, desc, offset) ==
    IF s.err # Ok \/ ~(offset < desc.len)
    THEN s
    ELSE process_queue_pfns(process_pfn(s, queue, read_obj(chain, offset, PfnChunkSize)),
                            queue, chain, desc, offset + PfnChunkSize)

\* a faulty process_queue, which skips a chain with a write-only head and
\* goes on with the next one
process_queue_chain_skips(s, queue, chain) ==
    IF chain.descs = <<>>
    THEN Fail(s, Err("DescriptorChainTooShort"))
    ELSE IF chain.descs[1].wo
    THEN s
    ELSE IF chain.descs[1].len % PfnChunkSize # 0
    THEN Fail(s, Err("InvalidRequest"))
    ELSE set_used_descs(
             add_used(process_queue_pfns(s, queue, chain, chain.descs[1], 0),
                      chain.head, U32(chain.descs[1].len)))

\* a faulty process_queue, which takes a head of any length
process_queue_chain_any_length(s, queue, chain) ==
    IF chain.descs = <<>>
    THEN Fail(s, Err("DescriptorChainTooShort"))
    ELSE IF chain.descs[1].wo
    THEN Fail(s, Err("UnexpectedWriteOnlyDescriptor"))
    ELSE set_used_descs(
             add_used(process_queue_pfns(s, queue, chain, chain.descs[1], 0),
                      chain.head, U32(chain.descs[1].len)))

\* one chain popped from the available ring
process_queue_chain(s, queue, chain) ==
    IF chain.descs = <<>>
    THEN Fail(s, Err("DescriptorChainTooShort"))
    ELSE IF chain.descs[1].wo
    THEN Fail(s, Err("UnexpectedWriteOnlyDescriptor"))
    ELSE IF chain.descs[1].len % PfnChunkSize # 0
    THEN Fail(s, Err("InvalidRequest"))
    ELSE set_used_descs(
             add_used(process_queue_pfns(s, queue, chain, chain.descs[1], 0),
                      chain.head, U32(chain.descs[1].len)))

\* a faulty process_queue, which puts a chain that fails back at the front of
\* the available ring
Requeued(s, chain) == IF s.err # Ok THEN [s EXCEPT !.avail = <<chain>> \o @] ELSE s
RECURSIVE process_queue_drain_requeues(_, _)
process_queue_drain_requeues(s, queue) ==
    IF s.err # Ok \/ s.avail = <<>>
    THEN s
    ELSE process_queue_drain_requeues(
             Requeued(process_queue_chain(Pop(s), queue, Head(s.avail)), Head(s.avail)),
             queue)

RECURSIVE process_queue_drain(_, _)
process_queue_drain(s, queue) ==
    IF s.err # Ok \/ s.avail = <<>>
    THEN s
    ELSE process_queue_drain(process_queue_chain(Pop(s), queue, Head(s.avail)), queue)

process_queue(s, queue) == signal_if_used(process_queue_drain(s, queue), s.queue_index)

(***************************************************************************)
(* BalloonEpollHandler::process_stats_queue                                *)
(***************************************************************************)
\* a faulty store, which leaves the counter as it was
store_stat_keeps(s, slot, stat) ==
    IF ~slot.some
    THEN Fail(s, [kind |-> "UnexpectedStatTag", tag |-> stat.tag])
    ELSE [s EXCEPT !.log = Append(@, [e |-> "store", tag |-> slot.val, val |-> stat.val])]

\* self.counters.get(stat.tag)?.store(stat.val)
store_stat(s, slot, stat) ==
    IF ~slot.some
    THEN Fail(s, [kind |-> "UnexpectedStatTag", tag |-> stat.tag])
    ELSE [s EXCEPT !.counters[slot.val] = stat.val,
                   !.log = Append(@, [e |-> "store", tag |-> slot.val, val |-> stat.val])]

\* the body of the inner loop: one BalloonStat record
process_stat(s, stat) ==
    IF ~stat.some
    THEN Fail(s, Err("GuestMemory"))
    ELSE store_stat(s, CountersGet(stat.val.tag), stat.val)

\* the inner loop over the BalloonStat records of the head descriptor
RECURSIVE process_stats_records(_, _, _, _)
process_stats_records(s, chain, desc, offset) ==
    IF s.err # Ok \/ ~(offset < desc.len)
    THEN s
    ELSE process_stats_records(process_stat(s, read_obj(chain, offset, StatChunkSize)),
                               chain, desc, offset + StatChunkSize)

\* a faulty process_stats_queue, which checks the length before the
\* write-only flag
process_stats_chain_length_first(s, chain) ==
    IF chain.descs = <<>>
    THEN Fail(s, Err("DescriptorChainTooShort"))
    ELSE IF chain.descs[1].len % StatChunkSize # 0
    THEN Fail(s, Err("InvalidRequest"))
    ELSE IF chain.descs[1].wo
    THEN Fail(s, Err("UnexpectedWriteOnlyDescriptor"))
    ELSE set_used_descs(
             add_used(process_stats_records(s, chain, chain.descs[1], 0),
                      chain.head, U32(chain.descs[1].len)))

\* a faulty process_stats_queue, which reads records for the second
\* descriptor of a chain too
process_stats_chain_every_desc(s, chain) ==
    IF chain.descs = <<>>
    THEN Fail(s, Err("DescriptorChainTooShort"))
    ELSE IF chain.descs[1].wo
    THEN Fail(s, Err("UnexpectedWriteOnlyDescriptor"))
    ELSE IF chain.descs[1].len % StatChunkSize # 0
    THEN Fail(s, Err("InvalidRequest"))
    ELSE IF Len(chain.descs) > 1
    THEN set_used_descs(
             add_used(process_stats_records(
                          process_stats_records(s, chain, chain.descs[1], 0),
                          chain, chain.descs[1], 0),
                      chain.head, U32(chain.descs[1].len)))
    ELSE set_used_descs(
             add_used(process_stats_records(s, chain, chain.descs[1], 0),
                      chain.head, U32(chain.descs[1].len)))

process_stats_chain(s, chain) ==
    IF chain.descs = <<>>
    THEN Fail(s, Err("DescriptorChainTooShort"))
    ELSE IF chain.descs[1].wo
    THEN Fail(s, Err("UnexpectedWriteOnlyDescriptor"))
    ELSE IF chain.descs[1].len % StatChunkSize # 0
    THEN Fail(s, Err("InvalidRequest"))
    ELSE set_used_descs(
             add_used(process_stats_records(s, chain, chain.descs[1], 0),
                      chain.head, U32(chain.descs[1].len)))

RECURSIVE process_stats_drain(_)
process_stats_drain(s) ==
    IF s.err # Ok \/ s.avail = <<>>
    THEN s
    ELSE process_stats_drain(process_stats_chain(Pop(s), Head(s.avail)))

\* a faulty timer, which a reset does not arm
timer_not_armed(s) == s

\* TimerFd::reset(interval, None): the one-shot timer is armed
timer_armed(s) == IF s.err # Ok THEN s ELSE [s EXCEPT !.timer = "armed"]

\* a faulty end of process_stats_queue, which signals the queue instead of
\* resetting the timer
stats_signal(s) ==
    IF s.err # Ok \/ ~s.used_descs
    THEN s
    ELSE signal(s, [type |-> "Queue", index |-> s.queue_index])

\* the end of process_stats_queue: the timer is reset when a chain was used
stats_timer_reset(s) ==
    IF s.err # Ok \/ ~s.used_descs
    THEN s
    ELSE IF ~s.stats_timer_evt
    THEN Fail(s, Err("MemoryStatistic"))
    ELSE IF ~s.stats_polling_interval.some
    THEN Fail(s, Err("MemoryStatistic"))
    ELSE timer_armed(ExtCall(s, [e |-> "timer_reset",
                                 interval |-> s.stats_polling_interval.val,
                                 period |-> None],
                             Err("MemoryStatistic")))

\* if self.stats_queue_index.is_none() { self.stats_queue_index.replace(queue_index) }
latch_stats_queue_index(s) ==
    IF s.stats_queue_index.some
    THEN s
    ELSE [s EXCEPT !.stats_queue_index = Some(s.queue_index)]

process_stats_queue(s) == stats_timer_reset(process_stats_drain(latch_stats_queue_index(s)))

\* BalloonEpollHandler::process_stats_timer
process_stats_timer(s) ==
    IF ~s.stats_queue_index.some
    THEN Fail(s, Err("MemoryStatistic"))
    ELSE signal(s, [type |-> "Queue", index |-> s.stats_queue_index.val])

(***************************************************************************)
(* BalloonEpollHandler::process_reporting_queue                            *)
(***************************************************************************)
\* descs_len += desc.len() on u32: the build either checks the overflow
\* (and panics) or wraps
AddDescLen(s, n) ==
    IF U32AddOverflows(s.descs_len, n) /\ s.overflow_checks
    THEN Fail(s, Panic)
    ELSE [s EXCEPT !.descs_len = U32WrappingAdd(@, n)]

\* the inner loop over every descriptor of the chain
RECURSIVE process_reporting_descs(_, _, _)
process_reporting_descs(s, chain, i) ==
    IF s.err # Ok \/ i > Len(chain.descs)
    THEN s
    ELSE process_reporting_descs(
             release_memory_range(AddDescLen(s, chain.descs[i].len),
                                  chain.descs[i].addr, chain.descs[i].len),
             chain, i + 1)

\* add_used(.., head_index, descs_len), not reached once an error was returned
add_used_descs_len(s, head_index) ==
    IF s.err # Ok THEN s ELSE add_used(s, head_index, s.descs_len)

\* a faulty process_reporting_queue, which refuses a write-only head
process_reporting_chain_checks_head(s, chain) ==
    IF chain.descs # <<>> /\ chain.descs[1].wo
    THEN Fail(s, Err("UnexpectedWriteOnlyDescriptor"))
    ELSE set_used_descs(
             add_used_descs_len(
                 process_reporting_descs([s EXCEPT !.descs_len = U32(0)], chain, 1),
                 chain.head))

process_reporting_chain(s, chain) ==
    set_used_descs(
        add_used_descs_len(
            process_reporting_descs([s EXCEPT !.descs_len = U32(0)], chain, 1),
            chain.head))

RECURSIVE process_reporting_drain(_)
process_reporting_drain(s) ==
    IF s.err # Ok \/ s.avail = <<>>
    THEN s
    ELSE process_reporting_drain(process_reporting_chain(Pop(s), Head(s.avail)))

process_reporting_queue(s) == signal_if_used(process_reporting_drain(s), s.queue_index)

(***************************************************************************)
(* Events of the worker's EpollHelper                                      *)
(***************************************************************************)
INFLATE_QUEUE_EVENT == "INFLATE_QUEUE_EVENT"
DEFLATE_QUEUE_EVENT == "DEFLATE_QUEUE_EVENT"
STATS_QUEUE_EVENT == "STATS_QUEUE_EVENT"
STATS_TIMER_EVENT == "STATS_TIMER_EVENT"
REPORTING_QUEUE_EVENT == "REPORTING_QUEUE_EVENT"
HETERO_INFLATE_QUEUE_EVENT == "HETERO_INFLATE_QUEUE_EVENT"
HETERO_DEFLATE_QUEUE_EVENT == "HETERO_DEFLATE_QUEUE_EVENT"

QueueEvents ==
    {INFLATE_QUEUE_EVENT, DEFLATE_QUEUE_EVENT, STATS_QUEUE_EVENT, REPORTING_QUEUE_EVENT,
     HETERO_INFLATE_QUEUE_EVENT, HETERO_DEFLATE_QUEUE_EVENT}

\* the role whose queue handle_event drains on a queue event
EventQueue(ev) ==
    CASE ev = INFLATE_QUEUE_EVENT -> Inflate
      [] ev = DEFLATE_QUEUE_EVENT -> Deflate
      [] ev = STATS_QUEUE_EVENT -> Stats
      [] ev = REPORTING_QUEUE_EVENT -> Reporting
      [] ev = HETERO_INFLATE_QUEUE_EVENT -> HeteroInflate
      [] ev = HETERO_DEFLATE_QUEUE_EVENT -> HeteroDeflate

\* the event of the eventfd that activate stores for a role
QueueEvent(queue) == CHOOSE ev \in QueueEvents : EventQueue(ev) = queue

\* the Option<EventFd> / Option<TimerFd> field of the handler behind an event
EventFdPresent(h, ev) ==
    CASE ev \in {INFLATE_QUEUE_EVENT, DEFLATE_QUEUE_EVENT} -> TRUE
      [] ev = STATS_QUEUE_EVENT -> h.stats_queue_evt
      [] ev = STATS_TIMER_EVENT -> h.stats_timer_evt
      [] ev = REPORTING_QUEUE_EVENT -> h.reporting_queue_evt
      [] ev = HETERO_INFLATE_QUEUE_EVENT -> h.hetero_inflate_queue_evt
      [] ev = HETERO_DEFLATE_QUEUE_EVENT -> h.hetero_deflate_queue_evt

(***************************************************************************)
(* Balloon::activate                                                       *)
(***************************************************************************)
\* a faulty activate, which gives every role a fixed index
ActivateQueues_fixed_indices(nq) ==
    LET has_stats == feature_acked(VIRTIO_BALLOON_F_STATS_VQ) /\ nq - 2 > 0
        n_stats == 2 + (IF has_stats THEN 1 ELSE 0)
        has_reporting == feature_acked(VIRTIO_BALLOON_F_REPORTING) /\ nq - n_stats > 0
        n_reporting == n_stats + (IF has_reporting THEN 1 ELSE 0)
        has_hetero_inflate == feature_acked(VIRTIO_BALLOON_F_HETERO_MEM) /\ nq - n_reporting > 0
        n_hetero_inflate == n_reporting + (IF has_hetero_inflate THEN 1 ELSE 0)
        has_hetero_deflate ==
            feature_acked(VIRTIO_BALLOON_F_HETERO_MEM) /\ nq - n_hetero_inflate > 0
        n_hetero_deflate == n_hetero_inflate + (IF has_hetero_deflate THEN 1 ELSE 0)
        roles == {Inflate, Deflate}
                    \cup (IF has_stats THEN {Stats} ELSE {})
                    \cup (IF has_reporting THEN {Reporting} ELSE {})
                    \cup (IF has_hetero_inflate THEN {HeteroInflate} ELSE {})
                    \cup (IF has_hetero_deflate THEN {HeteroDeflate} ELSE {})
    IN  [queue_indices |->
            [r \in roles |->
                CASE r = Inflate -> 0
                  [] r = Deflate -> 1
                  [] r = Stats -> 2
                  [] r = Reporting -> 3
                  [] r = HeteroInflate -> 4
                  [] r = HeteroDeflate -> 5],
         virtqueues |-> n_hetero_deflate,
         stats_queue_evt |-> has_stats,
         stats_timer_evt |-> has_stats,
         reporting_queue_evt |-> has_reporting,
         hetero_inflate_queue_evt |-> has_hetero_inflate,
         hetero_deflate_queue_evt |-> has_hetero_deflate]

\* The queue list is consumed in order: queues.remove(0) for inflate and
\* deflate, then one queue per acknowledged feature while the list is not
\* empty.  nq is the length of the list the transport passes.
ActivateQueues(nq) ==
    LET has_stats == feature_acked(VIRTIO_BALLOON_F_STATS_VQ) /\ nq - 2 > 0
        n_stats == 2 + (IF has_stats THEN 1 ELSE 0)
        has_reporting == feature_acked(VIRTIO_BALLOON_F_REPORTING) /\ nq - n_stats > 0
        n_reporting == n_stats + (IF has_reporting THEN 1 ELSE 0)
        has_hetero_inflate == feature_acked(VIRTIO_BALLOON_F_HETERO_MEM) /\ nq - n_reporting > 0
        n_hetero_inflate == n_reporting + (IF has_hetero_inflate THEN 1 ELSE 0)
        has_hetero_deflate ==
            feature_acked(VIRTIO_BALLOON_F_HETERO_MEM) /\ nq - n_hetero_inflate > 0
        n_hetero_deflate == n_hetero_inflate + (IF has_hetero_deflate THEN 1 ELSE 0)
        roles == {Inflate, Deflate}
                    \cup (IF has_stats THEN {Stats} ELSE {})
                    \cup (IF has_reporting THEN {Reporting} ELSE {})
                    \cup (IF has_hetero_inflate THEN {HeteroInflate} ELSE {})
                    \cup (IF has_hetero_deflate THEN {HeteroDeflate} ELSE {})
    IN  [queue_indices |->
            [r \in roles |->
                CASE r = Inflate -> 0
                  [] r = Deflate -> 1
                  [] r = Stats -> 2
                  [] r = Reporting -> n_stats
                  [] r = HeteroInflate -> n_reporting
                  [] r = HeteroDeflate -> n_hetero_inflate],
         virtqueues |-> n_hetero_deflate,
         stats_queue_evt |-> has_stats,
         stats_timer_evt |-> has_stats,
         reporting_queue_evt |-> has_reporting,
         hetero_inflate_queue_evt |-> has_hetero_inflate,
         hetero_deflate_queue_evt |-> has_hetero_deflate]

\* the BalloonEpollHandler that activate builds
NewHandler(q) ==
    [queue_indices |-> q.queue_indices,
     stats_queue_evt |-> q.stats_queue_evt,
     stats_timer_evt |-> q.stats_timer_evt,
     stats_polling_interval |-> stats_polling_interval,
     stats_queue_index |-> None,
     reporting_queue_evt |-> q.reporting_queue_evt,
     hetero_inflate_queue_evt |-> q.hetero_inflate_queue_evt,
     hetero_deflate_queue_evt |-> q.hetero_deflate_queue_evt]

\* VirtioCommon::default(), the fields Balloon::new does not set
CommonDefault ==
    [interrupt_cb |-> None, kill_evt |-> None, pause_evt |-> None, epoll_threads |-> None]

\* VirtioCommon::activate: too few queues are refused; else the kill and
\* pause eventfds are created and the interrupt injector kept for reset
CommonActivateOk(nq) == nq >= MIN_NUM_QUEUES
CommonActivated(cb) ==
    [common EXCEPT !.kill_evt = Some("open"), !.pause_evt = Some("open"),
                   !.interrupt_cb = Some(cb)]

\* a faulty outcome, which does not look at the host's page size
ActivateResult_any_page_size(nq, timer_new_ok, spawn_ok) ==
    IF ~CommonActivateOk(nq) THEN "BadActivate:queues"
    ELSE IF ActivateQueues(nq).stats_timer_evt /\ ~timer_new_ok THEN "BadActivate:timerfd"
    ELSE IF ~spawn_ok THEN "ThreadSpawn"
    ELSE "Ok"

\* the outcome of activate(mem, interrupt_cb, queues) with nq queues, when
\* TimerFd::new and the thread spawn succeed or not
ActivateResult(nq, timer_new_ok, spawn_ok) ==
    IF ~CommonActivateOk(nq) THEN "BadActivate:queues"
    ELSE IF ActivateQueues(nq).stats_timer_evt /\ ~timer_new_ok THEN "BadActivate:timerfd"
    ELSE IF page_size # Shl(1, VIRTIO_BALLOON_PFN_SHIFT) THEN "BadActivate:page_size"
    ELSE IF ~spawn_ok THEN "ThreadSpawn"
    ELSE "Ok"

\* a faulty activate, which does not hand its injector to VirtioCommon
Activate_forgets_injector(nq, cb, timer_new_ok, spawn_ok) ==
    LET res == ActivateResult(nq, timer_new_ok, spawn_ok)
        q == ActivateQueues(nq)
    IN  /\ worker = "none"
        /\ last' = [op |-> "activate", nq |-> nq, res |-> res]
        /\ common' =
            IF res = "BadActivate:queues" THEN common
            ELSE IF res = "Ok"
            THEN [common EXCEPT !.kill_evt = Some("open"), !.pause_evt = Some("open"),
                                !.epoll_threads = Some(1)]
            ELSE [common EXCEPT !.kill_evt = Some("open"), !.pause_evt = Some("open")]
        /\ interrupt_cb' =
            IF res \in {"BadActivate:queues", "BadActivate:timerfd"}
            THEN interrupt_cb
            ELSE Some(cb)
        /\ IF res = "Ok"
           THEN /\ handler' = Some(NewHandler(q))
                /\ queues' = [i \in 1..q.virtqueues |-> [avail |-> <<>>, used |-> <<>>]]
                /\ worker' = "spawned"
           ELSE UNCHANGED <<handler, queues, worker>>
        /\ UNCHANGED <<avail_features, acked_features, config, paused, queue_sizes,
                       stats_polling_interval, counters, page_size, pump_stops, snapshot, registered,
                       ready, timer, next_head, guest_queue>>

Activate(nq, cb, timer_new_ok, spawn_ok) ==
    LET res == ActivateResult(nq, timer_new_ok, spawn_ok)
        q == ActivateQueues(nq)
    IN  /\ worker = "none"
        /\ last' = [op |-> "activate", nq |-> nq, res |-> res]
        /\ common' =
            IF res = "BadActivate:queues" THEN common
            ELSE IF res = "Ok" THEN [CommonActivated(cb) EXCEPT !.epoll_threads = Some(1)]
            ELSE CommonActivated(cb)
        /\ interrupt_cb' =
            IF res \in {"BadActivate:queues", "BadActivate:timerfd"}
            THEN interrupt_cb
            ELSE Some(cb)
        /\ IF res = "Ok"
           THEN /\ handler' = Some(NewHandler(q))
                /\ queues' = [i \in 1..q.virtqueues |-> [avail |-> <<>>, used |-> <<>>]]
                /\ worker' = "spawned"
           ELSE UNCHANGED <<handler, queues, worker>>
        /\ UNCHANGED <<avail_features, acked_features, config, paused, queue_sizes,
                       stats_polling_interval, counters, page_size, pump_stops, snapshot, registered,
                       ready, timer, next_head, guest_queue>>

(***************************************************************************)
(* BalloonEpollHandler::run: the events added to the EpollHelper; then the  *)
(* helper's loop, which parks first while the device is paused              *)
(***************************************************************************)
\* a faulty run, which does not add the timer's event
RunEventsNoTimer(h) ==
    {INFLATE_QUEUE_EVENT, DEFLATE_QUEUE_EVENT}
        \cup (IF h.stats_queue_evt THEN {STATS_QUEUE_EVENT} ELSE {})
        \cup (IF h.reporting_queue_evt THEN {REPORTING_QUEUE_EVENT} ELSE {})
        \cup (IF h.hetero_inflate_queue_evt THEN {HETERO_INFLATE_QUEUE_EVENT} ELSE {})
        \cup (IF h.hetero_deflate_queue_evt THEN {HETERO_DEFLATE_QUEUE_EVENT} ELSE {})

RunEvents(h) ==
    {INFLATE_QUEUE_EVENT, DEFLATE_QUEUE_EVENT}
        \cup (IF h.stats_timer_evt THEN {STATS_TIMER_EVENT} ELSE {})
        \cup (IF h.stats_queue_evt THEN {STATS_QUEUE_EVENT} ELSE {})
        \cup (IF h.reporting_queue_evt THEN {REPORTING_QUEUE_EVENT} ELSE {})
        \cup (IF h.hetero_inflate_queue_evt THEN {HETERO_INFLATE_QUEUE_EVENT} ELSE {})
        \cup (IF h.hetero_deflate_queue_evt THEN {HETERO_DEFLATE_QUEUE_EVENT} ELSE {})

\* EpollHelper::run before its loop: a paused device's worker parks
PumpEntry(is_paused) == IF is_paused THEN "parked" ELSE "running"

WorkerRun ==
    /\ worker = "spawned"
    /\ registered' = RunEvents(handler.val)
    /\ worker' = PumpEntry(paused)
    /\ last' = [op |-> "run"]
    /\ UNCHANGED <<avail_features, acked_features, config, paused, queue_sizes, interrupt_cb,
                   stats_polling_interval, counters, page_size, pump_stops, snapshot, handler, queues,
                   ready, timer, common, next_head, guest_queue>>

\* VirtioCommon::resume: clear the flag and unpark the worker
Resume ==
    /\ paused
    /\ paused' = FALSE
    /\ worker' = IF worker = "parked" THEN "running" ELSE worker
    /\ last' = [op |-> "resume"]
    /\ UNCHANGED <<avail_features, acked_features, config, queue_sizes, interrupt_cb,
                   stats_polling_interval, counters, page_size, pump_stops, snapshot, handler, queues,
                   registered, ready, timer, common, next_head, guest_queue>>

(***************************************************************************)
(* EpollHelperHandler::handle_event                                        *)
(***************************************************************************)
\* what a dispatch starts from: the handler's fields, and the calls the
\* environment lets fail (fail_at-th call of the dispatch, 0 for none)
DispatchState(h, fail_at, overflow_checks) ==
    [avail |-> <<>>, used |-> <<>>, queue_index |-> 0, on_queue |-> FALSE,
     consumed |-> FALSE,
     counters |-> counters, timer |-> timer,
     stats_queue_index |-> h.stats_queue_index,
     stats_timer_evt |-> h.stats_timer_evt,
     stats_polling_interval |-> h.stats_polling_interval,
     log |-> <<>>, calls |-> 0, fail_at |-> fail_at, overflow_checks |-> overflow_checks,
     descs_len |-> U32(0), used_descs |-> FALSE, err |-> Ok]

\* EventFd::read of the queue's eventfd: the readiness is consumed
consume(s) == IF s.err # Ok THEN s ELSE [s EXCEPT !.consumed = TRUE]
evt_read(s, ev) == consume(ExtCall(s, [e |-> "read", ev |-> ev], Err("EventFdRead")))

\* self.queue_indices[&queue] and self.queues[queue_index]
OnQueue(s, h, queue) ==
    [s EXCEPT !.queue_index = h.queue_indices[queue],
              !.on_queue = TRUE,
              !.avail = queues[h.queue_indices[queue] + 1].avail,
              !.used = queues[h.queue_indices[queue] + 1].used]

\* the drain a queue event calls, not reached once the read returned an error
process_event_queue(s, h, queue) ==
    IF s.err # Ok
    THEN s
    ELSE IF queue \notin DOMAIN h.queue_indices
    THEN Fail(s, Panic)
    ELSE CASE queue = Stats -> process_stats_queue(OnQueue(s, h, queue))
           [] queue = Reporting -> process_reporting_queue(OnQueue(s, h, queue))
           [] OTHER -> process_queue(OnQueue(s, h, queue), queue)

\* the match of handle_event on the event type
match_ev_type(s, h, ev) ==
    IF ev \notin QueueEvents \cup {STATS_TIMER_EVENT}
    THEN Fail(s, Err("UnknownEvent"))
    ELSE IF ~EventFdPresent(h, ev)
    THEN Fail(s, Err("NoEventFd"))
    ELSE IF ev = STATS_TIMER_EVENT
    THEN process_stats_timer(s)
    ELSE process_event_queue(evt_read(s, ev), h, EventQueue(ev))

handle_event(h, ev, fail_at, overflow_checks) ==
    match_ev_type(DispatchState(h, fail_at, overflow_checks), h, ev)

\* what handle_event returns to EpollHelper::run: every error of the handler
\* is mapped to EpollHelperError::HandleEvent
HandleEventReturn(err) ==
    IF err = Ok THEN "Ok" ELSE IF err = Panic THEN "panic" ELSE "HandleEvent"

\* EpollHelper::run after a handler call: an error returned by the handler
\* either ends the loop (and with it the thread) or is logged and the loop
\* goes on; the helper sees the same EpollHelperError::HandleEvent whatever
\* the handler's own error was, so it does the same for every one of them
PumpAfter(ret, stops) ==
    IF ret = "panic" THEN "panicked"
    ELSE IF ret = "HandleEvent" /\ stops THEN "exited"
    ELSE "running"

\* the state the worker is in after handle_event(ev) came to s
Dispatched(h, ev, s) ==
    /\ ready' = IF s.consumed THEN ready \ {ev} ELSE ready
    /\ queues' = IF s.on_queue
                 THEN [queues EXCEPT ![s.queue_index + 1] =
                                         [avail |-> s.avail, used |-> s.used]]
                 ELSE queues
    /\ counters' = s.counters
    /\ timer' = s.timer
    /\ handler' = Some([h EXCEPT !.stats_queue_index = s.stats_queue_index])
    /\ worker' = PumpAfter(HandleEventReturn(s.err), pump_stops)
    /\ last' = [op |-> "handle_event", ev |-> ev, err |-> s.err,
                ret |-> HandleEventReturn(s.err), log |-> s.log,
                on_queue |-> s.on_queue, queue_index |-> s.queue_index,
                pre |-> [avail |-> IF s.on_queue THEN queues[s.queue_index + 1].avail
                                   ELSE <<>>,
                         used |-> IF s.on_queue THEN queues[s.queue_index + 1].used
                                  ELSE <<>>,
                         counters |-> counters, timer |-> timer,
                         stats_queue_index |-> h.stats_queue_index]]

HandleEvent(ev, fail_at, overflow_checks) ==
    /\ worker = "running"
    /\ ev \in registered
    /\ IF ev = STATS_TIMER_EVENT THEN timer = "expired" ELSE ev \in ready
    /\ Dispatched(handler.val, ev, handle_event(handler.val, ev, fail_at, overflow_checks))
    /\ UNCHANGED <<avail_features, acked_features, config, paused, queue_sizes, interrupt_cb,
                   stats_polling_interval, page_size, pump_stops, snapshot, registered, common,
                   next_head, guest_queue>>

(***************************************************************************)
(* The guest and the timer                                                 *)
(***************************************************************************)
\* the guest makes a chain available on the queue of a role and kicks it
GuestSubmit(queue, shape) ==
    /\ handler.some
    /\ queue \in DOMAIN handler.val.queue_indices
    /\ queues' = [queues EXCEPT ![handler.val.queue_indices[queue] + 1].avail =
                     Append(@, [head |-> next_head, descs |-> shape.descs,
                                data |-> shape.data])]
    /\ ready' = ready \cup {QueueEvent(queue)}
    /\ next_head' = next_head + 1
    /\ guest_queue' = Some(queue)
    /\ last' = [op |-> "guest_submit"]
    /\ UNCHANGED <<avail_features, acked_features, config, paused, queue_sizes, interrupt_cb,
                   stats_polling_interval, counters, page_size, pump_stops, snapshot, handler,
                   registered, timer, worker, common>>

\* the guest kicks a queue without a new chain
GuestKick(queue) ==
    /\ handler.some
    /\ queue \in DOMAIN handler.val.queue_indices
    /\ ready = {}
    /\ ready' = ready \cup {QueueEvent(queue)}
    /\ guest_queue' = Some(queue)
    /\ last' = [op |-> "guest_kick"]
    /\ UNCHANGED <<avail_features, acked_features, config, paused, queue_sizes, interrupt_cb,
                   stats_polling_interval, counters, page_size, pump_stops, snapshot, handler, queues,
                   registered, timer, worker, common, next_head>>

\* the one-shot timer expires: its fd becomes readable
TimerExpire ==
    /\ timer = "armed"
    /\ timer' = "expired"
    /\ last' = [op |-> "timer_expire"]
    /\ UNCHANGED <<avail_features, acked_features, config, paused, queue_sizes, interrupt_cb,
                   stats_polling_interval, counters, page_size, pump_stops, snapshot, handler, queues,
                   registered, ready, worker, common, next_head, guest_queue>>

(***************************************************************************)
(* The facade's calls as actions                                           *)
(***************************************************************************)
\* VirtioDevice::ack_features, during feature negotiation
AckFeatures(value) ==
    /\ worker = "none"
    /\ acked_features' = CommonAckFeatures(avail_features, acked_features, value)
    /\ last' = [op |-> "ack_features", value |-> value]
    /\ UNCHANGED <<avail_features, config, paused, queue_sizes, interrupt_cb,
                   stats_polling_interval, counters, page_size, pump_stops, snapshot, handler, queues,
                   registered, ready, timer, worker, common, next_head, guest_queue>>

WriteConfig(offset, data) ==
    /\ config' = write_config(config, offset, data)
    /\ last' = [op |-> "write_config", offset |-> offset, data |-> data, before |-> config]
    /\ UNCHANGED <<avail_features, acked_features, paused, queue_sizes, interrupt_cb,
                   stats_polling_interval, counters, page_size, pump_stops, snapshot, handler, queues,
                   registered, ready, timer, worker, common, next_head, guest_queue>>

\* Balloon::resize: the configuration, then a configuration-change interrupt
\* when an injector is bound
Resize(size) ==
    /\ config' = resize_config(config, size)
    /\ last' = [op |-> "resize", size |-> size,
                triggers |-> IF interrupt_cb.some THEN <<[type |-> "Config"]>> ELSE <<>>]
    /\ UNCHANGED <<avail_features, acked_features, paused, queue_sizes, interrupt_cb,
                   stats_polling_interval, counters, page_size, pump_stops, snapshot, handler, queues,
                   registered, ready, timer, worker, common, next_head, guest_queue>>

\* Snapshottable::snapshot: the state, and the fields it was taken from
TakeSnapshot ==
    /\ snapshot' = Some([state |-> State,
                         at |-> <<avail_features, acked_features, config>>])
    /\ last' = [op |-> "snapshot"]
    /\ UNCHANGED <<avail_features, acked_features, config, paused, queue_sizes, interrupt_cb,
                   stats_polling_interval, counters, page_size, pump_stops, handler, queues,
                   registered, ready, timer, worker, common, next_head, guest_queue>>

\* the device is built anew by Balloon::new from the state of the snapshot
Restore(size, interval, deflate_on_oom, free_page_reporting, heterogeneous_memory) ==
    /\ snapshot.some
    /\ worker = "none"
    /\ LET d == New(size, interval, deflate_on_oom, free_page_reporting,
                    heterogeneous_memory, Some(snapshot.val.state))
       IN  /\ avail_features' = d.avail_features
           /\ acked_features' = d.acked_features
           /\ config' = d.config
           /\ paused' = d.paused
           /\ queue_sizes' = d.queue_sizes
           /\ interrupt_cb' = d.interrupt_cb
           /\ stats_polling_interval' = d.stats_polling_interval
    /\ common' = CommonDefault
    /\ last' = [op |-> "restore", size |-> size, interval |-> interval,
                options |-> <<deflate_on_oom, free_page_reporting, heterogeneous_memory>>]
    /\ UNCHANGED <<counters, page_size, pump_stops, snapshot, handler, queues, registered, ready, timer,
                   worker, next_head, guest_queue>>

\* VirtioCommon::pause: set the flag; the worker parks at its next iteration
Pause ==
    /\ ~paused
    /\ paused' = TRUE
    /\ worker' = IF worker = "running" THEN "parked" ELSE worker
    /\ last' = [op |-> "pause"]
    /\ UNCHANGED <<avail_features, acked_features, config, queue_sizes, interrupt_cb,
                   stats_polling_interval, counters, page_size, pump_stops, snapshot,
                   handler, queues, registered, ready, timer, common, next_head,
                   guest_queue>>

\* Balloon::reset: VirtioCommon::reset stops and joins the worker, which drops
\* the handler with its queues and fds, and hands back the interrupt injector
\* that VirtioCommon::activate kept; the fields of Balloon itself are not
\* touched
Reset ==
    /\ worker' = "none"
    /\ handler' = None
    /\ queues' = <<>>
    /\ registered' = {}
    /\ ready' = {}
    /\ timer' = "disarmed"
    /\ common' = CommonDefault
    /\ last' = [op |-> "reset", ret |-> common.interrupt_cb, before |-> State]
    /\ UNCHANGED <<avail_features, acked_features, config, paused, queue_sizes,
                   interrupt_cb, stats_polling_interval, counters, page_size, pump_stops,
                   snapshot, next_head, guest_queue>>

(***************************************************************************)
(* Bounds and the inputs the guest and the host draw from                  *)
(***************************************************************************)
\* chains the guest submits in a run
MaxChains == 3
\* the latest call of a dispatch that the environment lets fail
MaxFailAt == 5

D(addr, len, wo) == [addr |-> addr, len |-> len, wo |-> wo]

\* guest addresses: inside the anonymous region, inside the file-backed
\* region, and outside every region
AnonAddr == Regions[1].start
FileAddr == Regions[2].start
OutAddr == Regions[2].start + Regions[2].len
BufAddr == Regions[1].start + 4096
PfnAnon == Shr(AnonAddr, VIRTIO_BALLOON_PFN_SHIFT)
PfnFile == Shr(FileAddr + 4096, VIRTIO_BALLOON_PFN_SHIFT)
PfnOut == Shr(OutAddr, VIRTIO_BALLOON_PFN_SHIFT)

\* chains for the inflate queue
PfnShapes ==
    {[descs |-> <<D(BufAddr, 8, FALSE)>>, data |-> <<PfnAnon, PfnFile>>],
     [descs |-> <<D(BufAddr, 4, FALSE), D(BufAddr + 64, 8, TRUE)>>, data |-> <<PfnFile>>],
     [descs |-> <<D(BufAddr, 6, TRUE)>>, data |-> <<PfnAnon>>],
     [descs |-> <<D(BufAddr, 6, FALSE)>>, data |-> <<PfnAnon>>],
     [descs |-> <<D(BufAddr, 8, FALSE)>>, data |-> <<PfnFile, PfnOut>>],
     [descs |-> <<>>, data |-> <<>>]}

Stat(tag, val) == [tag |-> tag, val |-> val]

\* chains for the statistics queue
StatsShapes ==
    {[descs |-> <<D(BufAddr, 20, FALSE)>>, data |-> <<Stat(0, 42), Stat(6, 1024)>>],
     [descs |-> <<D(BufAddr, 10, FALSE), D(BufAddr + 64, 10, FALSE)>>,
      data |-> <<Stat(15, 7)>>],
     [descs |-> <<D(BufAddr, 10, FALSE)>>, data |-> <<Stat(16, 1)>>],
     [descs |-> <<D(BufAddr, 20, FALSE)>>, data |-> <<Stat(0, 7), Stat(99, 1)>>],
     [descs |-> <<D(BufAddr, 15, TRUE)>>, data |-> <<Stat(0, 7)>>],
     [descs |-> <<D(BufAddr, 15, FALSE)>>, data |-> <<Stat(0, 7)>>]}

\* a length near 2^31: three of them overflow a u32
BigLen == (2 ^ 30) + ((2 ^ 30) - 4096)

\* chains for the reporting queue
ReportingShapes ==
    {[descs |-> <<D(AnonAddr, 4096, FALSE)>>, data |-> <<>>],
     [descs |-> <<D(FileAddr, 4096, TRUE), D(FileAddr + 4096, 4096, TRUE)>>, data |-> <<>>],
     [descs |-> <<D(AnonAddr, 4096, TRUE), D(OutAddr, 4096, TRUE)>>, data |-> <<>>],
     [descs |-> <<D(AnonAddr, BigLen, TRUE), D(AnonAddr, BigLen, TRUE),
                  D(AnonAddr, BigLen, TRUE)>>, data |-> <<>>]}

\* chains for the deflate queue
DeflateShapes ==
    {[descs |-> <<D(BufAddr, 8, FALSE)>>, data |-> <<PfnAnon, PfnFile>>],
     [descs |-> <<D(BufAddr, 4, TRUE)>>, data |-> <<PfnAnon>>],
     [descs |-> <<D(BufAddr, 4, FALSE), D(OutAddr, 6, FALSE)>>, data |-> <<PfnAnon>>]}

\* chains for the heterogeneous queues
HeteroShapes ==
    {[descs |-> <<D(BufAddr, 4, FALSE)>>, data |-> <<PfnFile>>],
     [descs |-> <<D(BufAddr, 6, TRUE)>>, data |-> <<PfnAnon>>]}

ShapesFor(queue) ==
    CASE queue = Stats -> StatsShapes
      [] queue = Reporting -> ReportingShapes
      [] queue = Inflate -> PfnShapes
      [] queue = Deflate -> DeflateShapes
      [] OTHER -> HeteroShapes

IntervalVals == {None, Some([secs |-> 1])}
SizeVals == {<<0, 0>>, <<2097152, 4096>>}
FeatureBits ==
    {VIRTIO_F_VERSION_1, VIRTIO_BALLOON_F_STATS_VQ, VIRTIO_BALLOON_F_DEFLATE_ON_OOM,
     VIRTIO_BALLOON_F_REPORTING, VIRTIO_BALLOON_F_HETERO_MEM}
QueueFeatures ==
    {VIRTIO_BALLOON_F_STATS_VQ, VIRTIO_BALLOON_F_REPORTING, VIRTIO_BALLOON_F_HETERO_MEM}

(***************************************************************************)
(* Initial states: a device as Balloon::new builds it                      *)
(***************************************************************************)
InitDevice(d) ==
    /\ avail_features = d.avail_features
    /\ acked_features = d.acked_features
    /\ config = d.config
    /\ paused = d.paused
    /\ queue_sizes = d.queue_sizes
    /\ interrupt_cb = d.interrupt_cb
    /\ stats_polling_interval = d.stats_polling_interval
    /\ common = CommonDefault
    /\ counters = [t \in 0..15 |-> 0]
    /\ snapshot = None
    /\ handler = None
    /\ queues = <<>>
    /\ registered = {}
    /\ ready = {}
    /\ timer = "disarmed"
    /\ worker = "none"
    /\ next_head = 0
    /\ guest_queue = None
    /\ last = [op |-> "new"]

(***************************************************************************)
(* The worker: a fresh device with every option is negotiated, activated    *)
(* and serves its queues.  The guest driver works on one queue.  Whether    *)
(* the helper's loop ends on a handler error is fixed for a behaviour.      *)
(***************************************************************************)
Init ==
    /\ page_size = 4096
    /\ pump_stops \in BOOLEAN
    /\ InitDevice(New(<<0, 0>>, Some([secs |-> 1]), TRUE, TRUE, TRUE, None))

Negotiate == \E value \in {QueueFeatures} : acked_features = {} /\ AckFeatures(value)
DoActivate == \E nq \in {6}, timer_new_ok \in BOOLEAN, spawn_ok \in BOOLEAN :
                  Activate(nq, "irq", timer_new_ok, spawn_ok)
Submit == \E queue \in BalloonVq : \E shape \in ShapesFor(queue) :
              /\ next_head < MaxChains
              /\ worker = "running"
              /\ guest_queue \in {None, Some(queue)}
              /\ GuestSubmit(queue, shape)
Kick == \E queue \in BalloonVq :
            /\ worker = "running"
            /\ guest_queue \in {None, Some(queue)}
            /\ GuestKick(queue)
Dispatch == \E ev \in QueueEvents \cup {STATS_TIMER_EVENT}, fail_at \in 0..MaxFailAt :
                \E overflow_checks \in (IF ev = REPORTING_QUEUE_EVENT THEN BOOLEAN ELSE {TRUE}) :
                    HandleEvent(ev, fail_at, overflow_checks)

Next ==
    \/ Negotiate
    \/ DoActivate
    \/ WorkerRun
    \/ Submit
    \/ Kick
    \/ TimerExpire
    \/ Dispatch

Spec == Init /\ [][Next]_vars

(***************************************************************************)
(* The facade: a device is negotiated, written, resized, snapshotted and    *)
(* built anew from the snapshot                                             *)
(***************************************************************************)
AckValues ==
    {QueueFeatures, {VIRTIO_F_VERSION_1}, {VIRTIO_BALLOON_F_STATS_VQ, 40}}
WriteOffsets ==
    {CONFIG_NUM_PAGES_OFFSET, CONFIG_ACTUAL_OFFSET, CONFIG_ACTUAL_OFFSET + 1, 8,
     CONFIG_NUM_HETERO_PAGES_OFFSET, CONFIG_HETERO_ACTUAL_OFFSET,
     CONFIG_HETERO_ACTUAL_OFFSET + 1, 24}
WriteData == {<<>>, <<17, 34, 51>>, <<17, 34, 51, 68>>, <<17, 34, 51, 68, 85>>}

InitDev ==
    /\ page_size = 4096
    /\ pump_stops = TRUE
    /\ \E d \in {New(<<0, 0>>, Some([secs |-> 1]), TRUE, TRUE, TRUE, None),
                 New(<<2097152, 4096>>, None, FALSE, FALSE, FALSE, None)} :
          InitDevice(d)

DevAckFeatures == \E value \in AckValues : snapshot = None /\ AckFeatures(value)
DevWriteConfig == \E offset \in WriteOffsets, data \in WriteData :
                      snapshot = None /\ WriteConfig(offset, data)
DevResize == \E size \in SizeVals : snapshot = None /\ Resize(size)
DevSnapshot == snapshot = None /\ TakeSnapshot
DevRestore == \E size \in SizeVals, interval \in IntervalVals :
                  \E deflate_on_oom \in BOOLEAN, free_page_reporting \in BOOLEAN,
                     heterogeneous_memory \in BOOLEAN :
                      /\ last.op # "restore"
                      /\ Restore(size, interval, deflate_on_oom, free_page_reporting,
                                 heterogeneous_memory)

NextDev ==
    \/ DevAckFeatures
    \/ DevWriteConfig
    \/ DevResize
    \/ DevSnapshot
    \/ DevRestore

SpecDev == InitDev /\ [][NextDev]_vars

(***************************************************************************)
(* Activation: the guest acknowledges any of the optional features, the     *)
(* transport passes any number of queues, and the worker registers its      *)
(* events                                                                   *)
(***************************************************************************)
\* the longest queue list the transport passes
MaxQueues == 7

InitAct ==
    /\ page_size \in {4096, 16384}
    /\ pump_stops = TRUE
    /\ InitDevice(New(<<0, 0>>, Some([secs |-> 1]), TRUE, TRUE, TRUE, None))

ActAckFeatures == \E value \in SUBSET QueueFeatures : AckFeatures(value)
ActActivate == \E nq \in 0..MaxQueues, timer_new_ok \in BOOLEAN, spawn_ok \in BOOLEAN :
                   Activate(nq, "irq", timer_new_ok, spawn_ok)

NextAct ==
    \/ ActAckFeatures
    \/ ActActivate
    \/ WorkerRun

SpecAct == InitAct /\ [][NextAct]_vars

(***************************************************************************)
(* The lifecycle: a device on a host with 4 KiB or 16 KiB pages is          *)
(* negotiated, activated (or refused), resized, written, paused, resumed    *)
(* and reset, while the guest submits chains and the worker serves them.    *)
(***************************************************************************)
\* chains the guest submits in a run of the lifecycle
MaxLifeChains == 1

LifeQueues == {Inflate, Stats}
LifeShapes(queue) ==
    IF queue = Stats
    THEN {[descs |-> <<D(BufAddr, 10, FALSE)>>, data |-> <<Stat(4, 9)>>]}
    ELSE {[descs |-> <<D(BufAddr, 4, FALSE)>>, data |-> <<PfnFile>>]}
LifeOffsets == {CONFIG_ACTUAL_OFFSET, CONFIG_HETERO_ACTUAL_OFFSET, 8}
LifeData == {<<17, 34, 51, 68>>}

InitLife ==
    /\ page_size \in {4096, 16384}
    /\ pump_stops = TRUE
    /\ InitDevice(New(<<0, 0>>, Some([secs |-> 1]), TRUE, TRUE, TRUE, None))

LifeAckFeatures == \E value \in {QueueFeatures} : acked_features = {} /\ AckFeatures(value)
\* the injectors the transport may hand to activate
LifeInjectors == {"irq", "irq2"}
LifeActivate == \E nq \in {1, 6}, cb \in LifeInjectors, timer_new_ok \in BOOLEAN,
                   spawn_ok \in BOOLEAN :
                    Activate(nq, cb, timer_new_ok, spawn_ok)
LifeResize == \E size \in SizeVals : Resize(size)
LifeWriteConfig == \E offset \in LifeOffsets, data \in LifeData : WriteConfig(offset, data)
LifeSubmit == \E queue \in LifeQueues : \E shape \in LifeShapes(queue) :
                  /\ next_head < MaxLifeChains
                  /\ worker = "running"
                  /\ GuestSubmit(queue, shape)
LifeDispatch == \E ev \in QueueEvents \cup {STATS_TIMER_EVENT} : HandleEvent(ev, 0, TRUE)

NextLife ==
    \/ LifeAckFeatures
    \/ LifeActivate
    \/ WorkerRun
    \/ LifeResize
    \/ LifeWriteConfig
    \/ Pause
    \/ Resume
    \/ Reset
    \/ LifeSubmit
    \/ TimerExpire
    \/ LifeDispatch

SpecLife == InitLife /\ [][NextLife]_vars

(***************************************************************************)
(* The control thread and the worker: a fresh or a restored device is       *)
(* activated, paused and resumed through the handshake with its worker,     *)
(* reset, and dropped, while the guest submits chains.  The calls of the    *)
(* facade come from one control thread: none begins while pause or drop     *)
(* waits for the worker.                                                    *)
(***************************************************************************)
\* the pause and kill eventfds the EpollHelper adds for itself
EPOLL_HELPER_EVENT_SHUTDOWN == "EPOLL_HELPER_EVENT_SHUTDOWN"
EPOLL_HELPER_EVENT_PAUSE == "EPOLL_HELPER_EVENT_PAUSE"

\* pause() wrote the pause eventfd and waits at the barrier
Pausing == EPOLL_HELPER_EVENT_PAUSE \in ready
\* drop() wrote the kill eventfd and waits for the worker thread
Dropping == EPOLL_HELPER_EVENT_SHUTDOWN \in ready
Dropped == worker = "joined"
\* the control thread is in no call
Idle == ~Pausing /\ ~Dropping /\ ~Dropped

\* VirtioCommon::pause, first half: the flag is set and the pause eventfd
\* written for a worker that is in its loop
PauseBegin ==
    /\ Idle
    /\ ~paused
    /\ worker = "running"
    /\ paused' = TRUE
    /\ ready' = ready \cup {EPOLL_HELPER_EVENT_PAUSE}
    /\ last' = [op |-> "pause_begin"]
    /\ UNCHANGED <<avail_features, acked_features, config, queue_sizes, interrupt_cb,
                   stats_polling_interval, counters, page_size, pump_stops, snapshot,
                   handler, queues, registered, timer, worker, common, next_head,
                   guest_queue>>

\* EpollHelper::run: at its next iteration the worker finds the pause event,
\* stops polling and goes to the barrier
WorkerPause ==
    /\ Pausing
    /\ worker = "running"
    /\ worker' = "at_barrier"
    /\ last' = [op |-> "worker_pause"]
    /\ UNCHANGED <<avail_features, acked_features, config, paused, queue_sizes,
                   interrupt_cb, stats_polling_interval, counters, page_size, pump_stops,
                   snapshot, handler, queues, registered, ready, timer, common, next_head,
                   guest_queue>>

\* a faulty handshake, after which the worker goes on polling
PauseReturn_keeps_polling ==
    /\ Pausing
    /\ worker = "at_barrier"
    /\ worker' = "running"
    /\ ready' = ready \ {EPOLL_HELPER_EVENT_PAUSE}
    /\ last' = [op |-> "pause"]
    /\ UNCHANGED <<avail_features, acked_features, config, paused, queue_sizes,
                   interrupt_cb, stats_polling_interval, counters, page_size, pump_stops,
                   snapshot, handler, queues, registered, timer, common, next_head,
                   guest_queue>>

\* both parties are at the barrier: pause() returns and the worker stays
\* parked until resume
PauseReturn ==
    /\ Pausing
    /\ worker = "at_barrier"
    /\ worker' = "parked"
    /\ ready' = ready \ {EPOLL_HELPER_EVENT_PAUSE}
    /\ last' = [op |-> "pause"]
    /\ UNCHANGED <<avail_features, acked_features, config, paused, queue_sizes,
                   interrupt_cb, stats_polling_interval, counters, page_size, pump_stops,
                   snapshot, handler, queues, registered, timer, common, next_head,
                   guest_queue>>

\* Drop for Balloon, first half: the kill eventfd is taken and written; then
\* wait_for_epoll_threads waits for the worker
DropBegin ==
    /\ Idle
    /\ common.kill_evt.some
    /\ common' = [common EXCEPT !.kill_evt = None]
    /\ ready' = ready \cup {EPOLL_HELPER_EVENT_SHUTDOWN}
    /\ last' = [op |-> "drop_begin"]
    /\ UNCHANGED <<avail_features, acked_features, config, paused, queue_sizes,
                   interrupt_cb, stats_polling_interval, counters, page_size, pump_stops,
                   snapshot, handler, queues, registered, timer, worker, next_head,
                   guest_queue>>

\* EpollHelper::run: a polling worker finds the kill event and leaves the pump
WorkerKill ==
    /\ Dropping
    /\ worker = "running"
    /\ worker' = "exited"
    /\ last' = [op |-> "worker_kill"]
    /\ UNCHANGED <<avail_features, acked_features, config, paused, queue_sizes,
                   interrupt_cb, stats_polling_interval, counters, page_size, pump_stops,
                   snapshot, handler, queues, registered, ready, timer, common, next_head,
                   guest_queue>>

\* VirtioCommon::wait_for_epoll_threads: the thread that ended is joined and
\* drop returns; the handler went with its thread
DropReturn ==
    /\ Dropping
    /\ worker \in {"exited", "panicked"}
    /\ worker' = "joined"
    /\ handler' = None
    /\ queues' = <<>>
    /\ registered' = {}
    /\ ready' = {}
    /\ timer' = "disarmed"
    /\ common' = [common EXCEPT !.epoll_threads = None]
    /\ last' = [op |-> "drop"]
    /\ UNCHANGED <<avail_features, acked_features, config, paused, queue_sizes,
                   interrupt_cb, stats_polling_interval, counters, page_size, pump_stops,
                   snapshot, next_head, guest_queue>>

\* chains the guest submits in a run of this part
MaxCtlChains == 2

CtlQueues == {Inflate, Stats}
CtlShapes(queue) ==
    IF queue = Stats
    THEN {[descs |-> <<D(BufAddr, 10, FALSE)>>, data |-> <<Stat(4, 9)>>]}
    ELSE {[descs |-> <<D(BufAddr, 4, FALSE)>>, data |-> <<PfnFile>>]}
CtlEvents == {INFLATE_QUEUE_EVENT, STATS_QUEUE_EVENT, STATS_TIMER_EVENT}

\* the state a restored device is built from
CtlState ==
    [avail_features |-> FeatureBits, acked_features |-> QueueFeatures,
     config |-> resize_config(DefaultConfig, <<2097152, 4096>>)]

\* the device as Balloon::new builds it without or with a state; snapshot
\* holds the state it was given
InitCtl ==
    /\ page_size = 4096
    /\ pump_stops = TRUE
    /\ snapshot \in {None, Some(CtlState)}
    /\ LET d == New(<<0, 0>>, Some([secs |-> 1]), TRUE, TRUE, TRUE, snapshot)
       IN  /\ avail_features = d.avail_features
           /\ acked_features = d.acked_features
           /\ config = d.config
           /\ paused = d.paused
           /\ queue_sizes = d.queue_sizes
           /\ interrupt_cb = d.interrupt_cb
           /\ stats_polling_interval = d.stats_polling_interval
    /\ common = CommonDefault
    /\ counters = [t \in 0..15 |-> 0]
    /\ handler = None
    /\ queues = <<>>
    /\ registered = {}
    /\ ready = {}
    /\ timer = "disarmed"
    /\ worker = "none"
    /\ next_head = 0
    /\ guest_queue = None
    /\ last = [op |-> "new"]

CtlAckFeatures == \E value \in {QueueFeatures} :
                      Idle /\ acked_features = {} /\ AckFeatures(value)
CtlActivate == Idle /\ acked_features # {} /\ Activate(6, "irq", TRUE, TRUE)
CtlResume == Idle /\ Resume
CtlReset == Idle /\ handler.some /\ Reset
CtlSubmit == \E queue \in CtlQueues : \E shape \in CtlShapes(queue) :
                 /\ next_head < MaxCtlChains
                 /\ worker \in {"running", "at_barrier", "parked"}
                 /\ GuestSubmit(queue, shape)
CtlDispatch(ev) == HandleEvent(ev, 0, TRUE)

NextCtl ==
    \/ CtlAckFeatures
    \/ CtlActivate
    \/ WorkerRun
    \/ PauseBegin
    \/ WorkerPause
    \/ PauseReturn
    \/ CtlResume
    \/ CtlReset
    \/ DropBegin
    \/ WorkerKill
    \/ DropReturn
    \/ CtlSubmit
    \/ TimerExpire
    \/ \E ev \in CtlEvents : CtlDispatch(ev)

\* the guard of HandleEvent: the pump would dispatch ev
DispatchEnabled(ev) ==
    /\ worker = "running"
    /\ ev \in registered
    /\ IF ev = STATS_TIMER_EVENT THEN timer = "expired" ELSE ev \in ready
\* weak fairness of the dispatch of ev, written with the guard of
\* HandleEvent and the state a dispatch of ev leaves
DispatchFair(ev) ==
    []<>(~DispatchEnabled(ev)) \/ []<>(last.op = "handle_event" /\ last.ev = ev)

\* the worker thread runs whenever it can: it enters the pump, serves every
\* ready event, answers the pause and the kill event; the barrier lets both
\* parties go and a join returns once the thread has ended
CtlFairness ==
    /\ WF_vars(WorkerRun)
    /\ WF_vars(WorkerPause)
    /\ WF_vars(PauseReturn)
    /\ WF_vars(WorkerKill)
    /\ WF_vars(DropReturn)
    /\ \A ev \in CtlEvents : DispatchFair(ev)

SpecCtl == InitCtl /\ [][NextCtl]_vars /\ CtlFairness

(***************************************************************************)
(* Properties of a dispatch.  `last` holds the most recent step; after a    *)
(* dispatch it holds the event, the error, the rings and the timer the      *)
(* dispatch started from (last.pre) and the log of what it did, in order.   *)
(* The rings after the dispatch are in `queues`.                            *)
(***************************************************************************)
IsDispatch == last.op = "handle_event"
\* a dispatch that came to drain a queue
IsDrain == IsDispatch /\ last.on_queue
DrainedQueue == EventQueue(last.ev)
UsedAfter == queues[last.queue_index + 1].used
AvailAfter == queues[last.queue_index + 1].avail

EventsAt(e) == {i \in 1..Len(last.log) : last.log[i].e = e}
PopsAt == EventsAt("pop")
AddUsedAt == {i \in EventsAt("add_used") : last.log[i].ok}
TriggersAt == EventsAt("trigger")
RaisedAt == {i \in TriggersAt : last.log[i].ok}
TimerResetsAt == EventsAt("timer_reset")

\* no call of the dispatch failed in the host
AllCallsOk == \A i \in 1..Len(last.log) : last.log[i].e \in {"pop", "store"} \/ last.log[i].ok

\* the errors a chain is refused or fails with
ChainErrors ==
    {"GuestMemory", "UnexpectedWriteOnlyDescriptor", "InvalidRequest",
     "DescriptorChainTooShort", "FallocateFail", "MadviseFail", "QueueAddUsed",
     "UnexpectedStatTag"}

\* the chain popped at position i of the log was processed without error: the
\* drain went on to the next chain or to its end
Processed(i) ==
    \/ \E j \in PopsAt : j > i
    \/ last.err.kind \in {"Ok", "FailedSignal", "MemoryStatistic"}

\* the sum of the lengths of the readable descriptors of a chain
RECURSIVE ReadableLen(_)
ReadableLen(descs) ==
    IF descs = <<>>
    THEN 0
    ELSE (IF Head(descs).wo THEN 0 ELSE Head(descs).len) + ReadableLen(Tail(descs))

\* the sum of the lengths of all descriptors of a chain, modulo 2^32
RECURSIVE WrappedLen(_)
WrappedLen(descs) ==
    IF descs = <<>>
    THEN U32(0)
    ELSE U32WrappingAdd(WrappedLen(Tail(descs)), Head(descs).len)

\* the used-ring entries for a head, in the ring and in the log
UsedEntriesFor(head) == {j \in 1..Len(UsedAfter) : UsedAfter[j].id = head}
AddUsedFor(head) == {j \in AddUsedAt : last.log[j].id = head}

\* every processed chain has one used entry, of the given length
UsedOnceWithLen(ExpectedLen(_)) ==
    \A i \in PopsAt :
        Processed(i) =>
            /\ Cardinality(UsedEntriesFor(last.log[i].chain.head)) = 1
            /\ Cardinality(AddUsedFor(last.log[i].chain.head)) = 1
            /\ \A j \in UsedEntriesFor(last.log[i].chain.head) :
                   UsedAfter[j].len = ExpectedLen(last.log[i].chain)
            /\ \A j \in AddUsedFor(last.log[i].chain.head) : j > i

\* the length the drains report for a chain: the head descriptor's on the PFN
\* and statistics queues, the wrapped sum of all descriptors' on reporting
ReportedLen(chain) ==
    IF DrainedQueue = Reporting THEN WrappedLen(chain.descs) ELSE U32(chain.descs[1].len)
TotalReadableLen(chain) == U32(ReadableLen(chain.descs))

\* C1, as stated: every chain a drain processes successfully gets exactly one
\* used-ring entry, whose length is the total readable length of the chain.
C1_AsStated == IsDrain /\ AllCallsOk => UsedOnceWithLen(TotalReadableLen)

\* C1, corrected: every chain a drain processes successfully gets exactly one
\* used-ring entry for its head, added after the chain was popped; its length
\* is the length of the head descriptor alone on the inflate, deflate,
\* heterogeneous and statistics queues, and on the reporting queue the sum of
\* the lengths of all descriptors, write-only ones included, modulo 2^32.
C1_UsedOnceHeadLen == IsDrain => UsedOnceWithLen(ReportedLen)

\* a statistics chain of two readable descriptors was processed
C1_Witness ==
    /\ IsDrain
    /\ DrainedQueue = Stats
    /\ \E i \in PopsAt :
           /\ Processed(i)
           /\ Len(last.log[i].chain.descs) = 2
           /\ TotalReadableLen(last.log[i].chain) # ReportedLen(last.log[i].chain)

\* one interrupt of the drained queue is raised, after every used entry
OneInterruptAfterUsed ==
    /\ Cardinality(RaisedAt) = 1
    /\ \A t \in RaisedAt :
           /\ last.log[t].int = [type |-> "Queue", index |-> last.queue_index]
           /\ \A u \in AddUsedAt : u < t

\* C2, as stated: a dispatch on a non-stats queue that adds a used entry
\* raises exactly one interrupt of that queue, after the last used entry.
C2_AsStated ==
    IsDrain /\ DrainedQueue # Stats /\ AddUsedAt # {} /\ AllCallsOk => OneInterruptAfterUsed

\* C2, corrected: a dispatch on a non-stats queue that adds a used entry and
\* whose drain reaches the end of the available ring asks for exactly one
\* interrupt of that queue, as its last step and so after the last used entry,
\* and returns Ok iff that interrupt is raised; a dispatch that a chain error
\* aborts asks for none, whatever it added to the used ring before.
C2_InterruptWhenDrained ==
    IsDrain /\ DrainedQueue # Stats /\ AddUsedAt # {} =>
        /\ last.err = Ok => OneInterruptAfterUsed
        /\ last.err.kind \in {"Ok", "FailedSignal"} =>
               /\ TriggersAt = {Len(last.log)}
               /\ AvailAfter = <<>>
        /\ last.err.kind = "FailedSignal" => RaisedAt = {}
        /\ last.err.kind \notin {"Ok", "FailedSignal"} => TriggersAt = {}

\* two chains were used and the interrupt raised
C2_Witness ==
    /\ IsDrain
    /\ DrainedQueue \in {Inflate, Reporting}
    /\ Cardinality(AddUsedAt) = 2
    /\ last.err = Ok
    /\ RaisedAt # {}

\* the timer is armed by the last step of the dispatch
ArmedAtEnd ==
    /\ timer = "armed"
    /\ TimerResetsAt = {Len(last.log)}
    /\ last.log[Len(last.log)] =
           [e |-> "timer_reset", interval |-> stats_polling_interval.val,
            period |-> None, ok |-> TRUE]

\* C3, as stated: a dispatch on the stats queue that consumes a chain arms
\* the timer at the end of the drain and raises no interrupt.
C3_AsStated ==
    IsDrain /\ DrainedQueue = Stats /\ AddUsedAt # {} /\ AllCallsOk =>
        ArmedAtEnd /\ TriggersAt = {}

\* C3, corrected: no dispatch on the stats queue asks for an interrupt; one
\* that adds a used entry and returns Ok has armed the timer as its last
\* step, one-shot and for the configured interval; one that returns an error
\* (a later chain is bad, or the reset fails) or that used no chain leaves the
\* timer as it was.
C3_ArmedWhenDrained ==
    IsDrain /\ DrainedQueue = Stats =>
        /\ TriggersAt = {}
        /\ AddUsedAt # {} /\ last.err = Ok => ArmedAtEnd
        /\ AddUsedAt = {} \/ last.err # Ok => timer = last.pre.timer
        /\ AddUsedAt = {} \/ last.err.kind \in ChainErrors => TimerResetsAt = {}

\* a statistics chain was used and the timer armed
C3_Witness ==
    /\ IsDrain
    /\ DrainedQueue = Stats
    /\ AddUsedAt # {}
    /\ last.err = Ok
    /\ last.pre.timer # "armed"
    /\ timer = "armed"

\* the dispatch was one of the stats queue that used a chain
StatsDrainedOne == IsDrain /\ DrainedQueue = Stats /\ AddUsedAt # {}

\* C4, as stated: the timer is armed iff the stats queue drained a chain in
\* the most recent dispatch.
C4_AsStated == IsDispatch /\ AllCallsOk => (timer = "armed" <=> StatsDrainedOne)

\* C4, corrected: after every dispatch the timer is armed iff it was armed
\* before the dispatch, or the dispatch was one of the stats queue that added
\* a used entry and returned Ok.  No dispatch disarms the timer; it stays
\* armed until it expires.
C4_ArmedAfterDispatch ==
    /\ IsDispatch =>
           (timer = "armed" <=> (last.pre.timer = "armed" \/ (StatsDrainedOne /\ last.err = Ok)))
    /\ last.op = "timer_expire" => timer = "expired"

\* the timer stays armed over a dispatch of the stats queue that finds no chain
C4_Witness ==
    /\ IsDrain
    /\ DrainedQueue = Stats
    /\ PopsAt = {}
    /\ last.err = Ok
    /\ timer = "armed"

Ids(ring) == [j \in 1..Len(ring) |-> ring[j].id]
Heads(chains) == [j \in 1..Len(chains) |-> chains[j].head]
PoppedChains == [k \in 1..Cardinality(PopsAt) |->
                    last.log[CHOOSE i \in PopsAt : Cardinality({j \in PopsAt : j <= i}) = k].chain]

\* C5: a drain that meets a bad chain after k good ones stops there with the
\* error: it has popped the k + 1 first chains of the ring, the k first ones
\* are in the used ring behind what was there, the chains behind the bad one
\* stay in the available ring, no interrupt is asked for, the timer is not
\* touched and the error is returned to the pump.
C5_AbortsDrain ==
    IsDrain /\ last.err.kind \in ChainErrors =>
        /\ PopsAt # {}
        /\ PoppedChains = SubSeq(last.pre.avail, 1, Cardinality(PopsAt))
        /\ AvailAfter = SubSeq(last.pre.avail, Cardinality(PopsAt) + 1, Len(last.pre.avail))
        /\ Ids(UsedAfter) =
               Ids(last.pre.used) \o Heads(SubSeq(last.pre.avail, 1, Cardinality(PopsAt) - 1))
        /\ \A i \in 1..Len(last.pre.used) : UsedAfter[i] = last.pre.used[i]
        /\ TriggersAt = {}
        /\ TimerResetsAt = {}
        /\ timer = last.pre.timer
        /\ last.ret = "HandleEvent"

\* a bad chain between a used one and one left in the ring
C5_Witness ==
    /\ IsDrain
    /\ last.err.kind \in ChainErrors
    /\ Cardinality(PopsAt) = 2
    /\ Len(UsedAfter) = Len(last.pre.used) + 1
    /\ AvailAfter # <<>>

\* C6, as stated: after a dispatch that a chain error aborted the worker is
\* alive and its pump serves the next event; after MemoryStatistic or
\* InvalidQueueIndex, and only then, the worker has ended.
C6_AsStated ==
    IsDispatch =>
        /\ last.err.kind \in ChainErrors => worker = "running"
        /\ last.err.kind \in {"MemoryStatistic", "InvalidQueueIndex"} => worker = "exited"

\* the memory operations Release and Prime make for a guest range
RegionOf(base) ==
    CHOOSE i \in 1..Len(Regions) :
        base >= Regions[i].start /\ base < Regions[i].start + Regions[i].len
HolePunch(base) ==
    IF Regions[RegionOf(base)].file.some
    THEN <<[e |-> "fallocate64", fd |-> Regions[RegionOf(base)].file.val.fd,
            mode |-> "PUNCH_HOLE|KEEP_SIZE",
            offset |-> base - Regions[RegionOf(base)].start
                           + Regions[RegionOf(base)].file.val.start,
            len |-> 4096, ok |-> TRUE]>>
    ELSE <<>>
Advise(base, advice) ==
    <<[e |-> "madvise",
       addr |-> Regions[RegionOf(base)].host + (base - Regions[RegionOf(base)].start),
       len |-> 4096, advice |-> advice, ok |-> TRUE]>>
Release(base) == HolePunch(base) \o Advise(base, "MADV_DONTNEED")
Prime(base) == Advise(base, "MADV_WILLNEED")

\* the operations for the first n PFNs of a chain's body, in body order
RECURSIVE PfnOps(_, _, _)
PfnOps(queue, data, n) ==
    IF n = 0
    THEN <<>>
    ELSE PfnOps(queue, data, n - 1)
             \o (IF queue \in {Inflate, HeteroInflate}
                 THEN Release(data[n] * 4096)
                 ELSE Prime(data[n] * 4096))

\* what the dispatch did between popping the chain at i and marking it used
DoneFor(i) ==
    SubSeq(last.log, i + 1,
           (CHOOSE j \in AddUsedFor(last.log[i].chain.head) : TRUE) - 1)

\* C10: for a chain processed on a PFN queue the memory operations made are,
\* in body order, one per PFN p of the head descriptor on the 4096 bytes at
\* p << 12: Release (a hole punched first if the region has a file, then
\* DONTNEED) on Inflate and HeteroInflate, Prime (WILLNEED alone) on Deflate
\* and HeteroDeflate.
C10_OneOperationPerPfn ==
    IsDrain /\ DrainedQueue \in {Inflate, Deflate, HeteroInflate, HeteroDeflate} =>
        \A i \in PopsAt :
            Processed(i) =>
                DoneFor(i) = PfnOps(DrainedQueue, last.log[i].chain.data,
                                    last.log[i].chain.descs[1].len \div 4)

\* a chain of two PFNs, one of them in the region with a file, was inflated
C10_Witness ==
    /\ IsDrain
    /\ DrainedQueue = Inflate
    /\ \E i \in PopsAt :
           /\ Processed(i)
           /\ Len(DoneFor(i)) = 3
           /\ last.log[i].chain.descs[1].len = 8

(***************************************************************************)
(* Properties of the facade                                                *)
(***************************************************************************)
\* C7: write_config(offset, buf) writes the record iff (offset, len(buf)) is
\* (4, 4) or (20, 4): then the four bytes from the offset on are those of buf
\* and the twenty others are unchanged; else all 24 bytes are unchanged.
C7_WriteConfig ==
    last.op = "write_config" =>
        /\ Len(config) = 24
        /\ IF <<last.offset, Len(last.data)>> \in {<<4, 4>>, <<20, 4>>}
           THEN \A i \in 1..24 :
                    config[i] = IF i \in (last.offset + 1)..(last.offset + 4)
                                THEN last.data[i - last.offset]
                                ELSE last.before[i]
           ELSE config = last.before

\* the guest wrote hetero_actual
C7_Witness ==
    /\ last.op = "write_config"
    /\ last.offset = 20
    /\ Len(last.data) = 4
    /\ config # last.before
    /\ SubSeq(config, 21, 24) = last.data

\* C8: a device built by new() from a snapshot's state has the avail_features,
\* acked_features and config the snapshotted device had when the snapshot was
\* taken, whatever the other arguments of new() are.
C8_SnapshotRestore ==
    last.op = "restore" =>
        <<avail_features, acked_features, config>> = snapshot.val.at

\* a device with acknowledged features and a written configuration is
\* restored by a new() without a statistics interval
C8_Witness ==
    /\ last.op = "restore"
    /\ last.interval = None
    /\ VIRTIO_BALLOON_F_STATS_VQ \in acked_features
    /\ Field(config, CONFIG_ACTUAL_OFFSET) # <<0, 0, 0, 0>>
    /\ Field(config, CONFIG_NUM_PAGES_OFFSET) # <<0, 0, 0, 0>>

(***************************************************************************)
(* Properties of the activation                                            *)
(***************************************************************************)
InMap(role) == handler.some /\ role \in DOMAIN handler.val.queue_indices
Activated == handler.some /\ worker \in {"running", "parked"}

\* the roles and events of an optional feature
FeatureRoles(feature) ==
    CASE feature = VIRTIO_BALLOON_F_STATS_VQ -> {Stats}
      [] feature = VIRTIO_BALLOON_F_REPORTING -> {Reporting}
      [] feature = VIRTIO_BALLOON_F_HETERO_MEM -> {HeteroInflate, HeteroDeflate}
FeatureEvents(feature) ==
    CASE feature = VIRTIO_BALLOON_F_STATS_VQ -> {STATS_QUEUE_EVENT, STATS_TIMER_EVENT}
      [] feature = VIRTIO_BALLOON_F_REPORTING -> {REPORTING_QUEUE_EVENT}
      [] feature = VIRTIO_BALLOON_F_HETERO_MEM ->
             {HETERO_INFLATE_QUEUE_EVENT, HETERO_DEFLATE_QUEUE_EVENT}

AlwaysActivated ==
    /\ InMap(Inflate)
    /\ InMap(Deflate)
    /\ {INFLATE_QUEUE_EVENT, DEFLATE_QUEUE_EVENT} \subseteq registered

\* C9, as stated: after a successful activation the queues and events of an
\* optional feature are all there if it was acknowledged and none is there if
\* it was not.
C9_AsStated ==
    Activated =>
        /\ AlwaysActivated
        /\ \A feature \in QueueFeatures :
               IF feature \in acked_features
               THEN /\ \A role \in FeatureRoles(feature) : InMap(role)
                    /\ FeatureEvents(feature) \subseteq registered
               ELSE /\ \A role \in FeatureRoles(feature) : ~InMap(role)
                    /\ FeatureEvents(feature) \cap registered = {}

\* the optional roles of the acknowledged features, in the order activate
\* takes their queues from the list
OptionalRoles == <<Stats, Reporting, HeteroInflate, HeteroDeflate>>
RoleFeature(role) ==
    CHOOSE feature \in QueueFeatures : role \in FeatureRoles(feature)
WantedRoles == SelectSeq(OptionalRoles, LAMBDA role : RoleFeature(role) \in acked_features)
\* the queues of the list behind those of inflate and deflate
Spare == Len(queues) - MIN_NUM_QUEUES

\* C9, corrected: after a successful activation inflate and deflate are in
\* the map and registered; the optional roles in the map are those of the
\* acknowledged features, in the order Stats, Reporting, HeteroInflate,
\* HeteroDeflate, as far as the queue list reaches (an acknowledged feature
\* gets no queue once the list is used up); the events registered are those
\* of the roles in the map, and the timer's iff Stats is in the map.  The
\* role of a feature that was not acknowledged is never in the map.
C9_ActivatedRoles ==
    /\ last.op = "activate" /\ last.res = "Ok" =>
           /\ InMap(Inflate) /\ InMap(Deflate)
           /\ Len(queues) = Min(last.nq, MIN_NUM_QUEUES + Len(WantedRoles))
           /\ \A k \in 1..Len(WantedRoles) : InMap(WantedRoles[k]) <=> k <= Spare
           /\ \A k \in 1..Len(OptionalRoles) :
                  RoleFeature(OptionalRoles[k]) \notin acked_features
                      => ~InMap(OptionalRoles[k])
    /\ Activated =>
           /\ AlwaysActivated
           /\ \A role \in BalloonVq : QueueEvent(role) \in registered <=> InMap(role)
           /\ STATS_TIMER_EVENT \in registered <=> InMap(Stats)
           /\ registered \subseteq QueueEvents \cup {STATS_TIMER_EVENT}

\* every optional feature was acknowledged and the list held all six queues
C9_Witness ==
    /\ Activated
    /\ QueueFeatures \subseteq acked_features
    /\ \A role \in BalloonVq : InMap(role)
    /\ registered = QueueEvents \cup {STATS_TIMER_EVENT}

(***************************************************************************)
(* Properties of the lifecycle                                             *)
(***************************************************************************)
\* the device is activated: its last activate succeeded and it was not reset
\* since
DeviceActivated == handler.some

\* C11, as stated: a resize raises exactly one configuration-change interrupt
\* if the device is activated at that moment, and none if it is not (never
\* activated, activation refused, or reset since the last activation).
C11_AsStated ==
    last.op = "resize" =>
        last.triggers = IF DeviceActivated THEN <<[type |-> "Config"]>> ELSE <<>>

(***************************************************************************)
(* Properties of the timer event                                           *)
(***************************************************************************)
\* C12, as stated: a dispatch of the timer's event asks for exactly one
\* interrupt of the stats queue's index and has consumed the readiness of the
\* timer, so that the same expiration is not dispatched again.
C12_AsStated ==
    (IsDispatch /\ last.ev = STATS_TIMER_EVENT) =>
        /\ Cardinality(TriggersAt) = 1
        /\ \A i \in TriggersAt :
               last.log[i].int = [type |-> "Queue", index |-> last.pre.stats_queue_index.val]
        /\ timer # "expired"

(***************************************************************************)
(* Properties of the chains a drain refuses                                *)
(***************************************************************************)
\* the last chain the dispatch popped, and what the dispatch did with it
LastPop == CHOOSE i \in PopsAt : \A j \in PopsAt : j <= i
LastChain == last.log[LastPop].chain
AfterLastPop == SubSeq(last.log, LastPop + 1, Len(last.log))
\* the stores a dispatch made, and the value the last store of a tag left
StoresAt == EventsAt("store")
LastStoreOf(tag) ==
    CHOOSE i \in StoresAt :
        last.log[i].tag = tag /\ \A j \in StoresAt : last.log[j].tag = tag => j <= i
\* the counters as the stores of the dispatch leave them
CountersAfterStores ==
    [tag \in 0..15 |->
        IF \E i \in StoresAt : last.log[i].tag = tag
        THEN last.log[LastStoreOf(tag)].val
        ELSE last.pre.counters[tag]]
\* the first record of a chain's body whose tag is no counter's
FirstBadTag(data) ==
    CHOOSE k \in 1..Len(data) :
        data[k].tag \notin 0..15 /\ \A m \in 1..(k - 1) : data[m].tag \in 0..15
RefusedForTag == IsDrain /\ DrainedQueue = Stats /\ last.err.kind = "UnexpectedStatTag"

\* C13, as stated: when a stats chain holds a record with a tag outside 0..15
\* the dispatch fails with UnexpectedStatTag(tag) and no counter is written
\* for that chain, wherever the record is in the chain.
C13_AsStated ==
    RefusedForTag =>
        /\ last.err.tag \notin 0..15
        /\ \A i \in StoresAt : i < LastPop

\* C13, corrected: the dispatch fails with UnexpectedStatTag(tag) for the
\* first record of the chain whose tag is outside 0..15; the records of the
\* chain before that one were stored in their counters, in order, and stay
\* stored; the bad record and the records behind it store nothing, and no
\* used entry is added for the chain.
C13_StoredUpToBadTag ==
    RefusedForTag =>
        /\ last.err.tag = LastChain.data[FirstBadTag(LastChain.data)].tag
        /\ AfterLastPop =
               [k \in 1..(FirstBadTag(LastChain.data) - 1) |->
                   [e |-> "store", tag |-> LastChain.data[k].tag,
                    val |-> LastChain.data[k].val]]
        /\ counters = CountersAfterStores
        /\ UsedEntriesFor(LastChain.head) = {}

\* a chain was refused for the tag of its second record, after its first
\* record was stored
C13_Witness ==
    /\ RefusedForTag
    /\ FirstBadTag(LastChain.data) = 2
    /\ counters # last.pre.counters

\* the chains a dispatch popped
PoppedAt(i) == last.log[i].chain
WriteOnlyHead(chain) == chain.descs # <<>> /\ chain.descs[1].wo
ElementSize(queue) == IF queue = Stats THEN StatChunkSize ELSE PfnChunkSize

\* C14: on the Inflate, Deflate, HeteroInflate, HeteroDeflate and Stats queues
\* a chain with a write-only head ends the dispatch with
\* UnexpectedWriteOnlyDescriptor, whatever its length is: nothing is done for
\* the chain after it was popped (no madvise, no fallocate64, no store, no
\* add_used) and the used ring has no entry for its head.
C14_WriteOnlyHead ==
    (IsDrain /\ DrainedQueue # Reporting) =>
        \A i \in PopsAt :
            WriteOnlyHead(PoppedAt(i)) =>
                /\ i = LastPop
                /\ last.err = Err("UnexpectedWriteOnlyDescriptor")
                /\ AfterLastPop = <<>>
                /\ UsedEntriesFor(PoppedAt(i).head) = {}

\* on a heterogeneous queue a chain with a write-only head of a length that
\* is no multiple of 4 was refused, after a good chain was used
C14_Witness ==
    /\ IsDrain
    /\ DrainedQueue \in {HeteroInflate, HeteroDeflate}
    /\ Cardinality(PopsAt) = 2
    /\ WriteOnlyHead(LastChain)
    /\ LastChain.descs[1].len % ElementSize(DrainedQueue) # 0
    /\ Len(UsedAfter) = 1

\* the head of the chain has a length that is no multiple of the element size
BadLength(chain, queue) ==
    chain.descs # <<>> /\ chain.descs[1].len % ElementSize(queue) # 0
\* the chain was refused and nothing came of it
RefusedWith(i, e) ==
    /\ i = LastPop
    /\ last.err = e
    /\ AfterLastPop = <<>>
    /\ UsedEntriesFor(PoppedAt(i).head) = {}
    /\ TriggersAt = {}
    /\ TimerResetsAt = {}
    /\ timer = last.pre.timer
    /\ counters = CountersAfterStores

\* C16, as stated: on the PFN queues and the stats queue a chain whose head
\* has a length that is no multiple of the element size ends the dispatch
\* with InvalidRequest, and nothing comes of the chain: no madvise, no
\* fallocate64, no store, no used entry, no interrupt, no timer reset.
C16_AsStated ==
    (IsDrain /\ DrainedQueue # Reporting) =>
        \A i \in PopsAt :
            BadLength(PoppedAt(i), DrainedQueue) => RefusedWith(i, Err("InvalidRequest"))

\* C16, corrected: the same for a chain whose head is readable; a write-only
\* head of such a length is refused with UnexpectedWriteOnlyDescriptor
\* instead, and nothing comes of that chain either.
C16_BadLength ==
    (IsDrain /\ DrainedQueue # Reporting) =>
        \A i \in PopsAt :
            BadLength(PoppedAt(i), DrainedQueue) =>
                RefusedWith(i, IF WriteOnlyHead(PoppedAt(i))
                               THEN Err("UnexpectedWriteOnlyDescriptor")
                               ELSE Err("InvalidRequest"))

\* a stats chain with a readable head of 15 bytes was refused behind a good
\* chain, whose record is stored
C16_Witness ==
    /\ IsDrain
    /\ DrainedQueue = Stats
    /\ last.err = Err("InvalidRequest")
    /\ Cardinality(PopsAt) = 2
    /\ BadLength(LastChain, Stats)
    /\ ~WriteOnlyHead(LastChain)
    /\ counters # last.pre.counters

(***************************************************************************)
(* Properties of the reporting queue                                       *)
(***************************************************************************)
\* the calls Release makes for the range of a descriptor
HolePunchRange(base, len) ==
    IF Regions[RegionOf(base)].file.some
    THEN <<[e |-> "fallocate64", fd |-> Regions[RegionOf(base)].file.val.fd,
            mode |-> "PUNCH_HOLE|KEEP_SIZE",
            offset |-> base - Regions[RegionOf(base)].start
                           + Regions[RegionOf(base)].file.val.start,
            len |-> len, ok |-> TRUE]>>
    ELSE <<>>
ReleaseRange(base, len) ==
    HolePunchRange(base, len)
        \o <<[e |-> "madvise",
              addr |-> Regions[RegionOf(base)].host + (base - Regions[RegionOf(base)].start),
              len |-> len, advice |-> "MADV_DONTNEED", ok |-> TRUE]>>
\* the calls for the first n descriptors of a chain, in chain order
RECURSIVE RangeOps(_, _)
RangeOps(descs, n) ==
    IF n = 0
    THEN <<>>
    ELSE RangeOps(descs, n - 1) \o ReleaseRange(descs[n].addr, descs[n].len)

\* C15, as stated: on the Reporting queue a chain with a write-only head ends
\* the dispatch with UnexpectedWriteOnlyDescriptor; none of its ranges is
\* released and the used ring has no entry for its head.
C15_AsStated ==
    (IsDrain /\ DrainedQueue = Reporting) =>
        \A i \in PopsAt :
            WriteOnlyHead(PoppedAt(i)) =>
                /\ i = LastPop
                /\ last.err = Err("UnexpectedWriteOnlyDescriptor")
                /\ AfterLastPop = <<>>
                /\ UsedEntriesFor(PoppedAt(i).head) = {}

\* C15, corrected: a dispatch on the Reporting queue never returns
\* UnexpectedWriteOnlyDescriptor; a chain with a write-only head is processed
\* as any other chain: when its releases succeed, every descriptor's range,
\* the head's included, was released in chain order and the used ring has
\* exactly one entry for its head.
C15_WriteOnlyHeadReleased ==
    (IsDrain /\ DrainedQueue = Reporting) =>
        /\ last.err # Err("UnexpectedWriteOnlyDescriptor")
        /\ \A i \in PopsAt :
               (WriteOnlyHead(PoppedAt(i)) /\ Processed(i)) =>
                   /\ DoneFor(i) = RangeOps(PoppedAt(i).descs, Len(PoppedAt(i).descs))
                   /\ Cardinality(UsedEntriesFor(PoppedAt(i).head)) = 1

\* a chain of two write-only descriptors in the region with a file was
\* released and used
C15_Witness ==
    /\ IsDrain
    /\ DrainedQueue = Reporting
    /\ last.err = Ok
    /\ \E i \in PopsAt :
           /\ WriteOnlyHead(PoppedAt(i))
           /\ Len(PoppedAt(i).descs) = 2
           /\ Len(DoneFor(i)) = 4

\* the sum of the lengths of all descriptors of a chain, as 16-bit halves
\* whose upper half is not reduced: it is a u32 iff hi < 2^16
RECURSIVE SumLen(_)
SumLen(descs) ==
    IF descs = <<>>
    THEN [hi |-> 0, lo |-> 0]
    ELSE [hi |-> SumLen(Tail(descs)).hi + (Head(descs).len \div Half)
                    + ((SumLen(Tail(descs)).lo + (Head(descs).len % Half)) \div Half),
          lo |-> (SumLen(Tail(descs)).lo + (Head(descs).len % Half)) % Half]

\* C17, as stated: for every chain processed on the Reporting queue Release
\* was made once per descriptor, the head included, in chain order and on the
\* descriptor's address and length, and the one used entry of the chain has
\* the sum of the lengths of all its descriptors.
C17_AsStated ==
    (IsDrain /\ DrainedQueue = Reporting) =>
        \A i \in PopsAt :
            Processed(i) =>
                /\ DoneFor(i) = RangeOps(PoppedAt(i).descs, Len(PoppedAt(i).descs))
                /\ Cardinality(UsedEntriesFor(PoppedAt(i).head)) = 1
                /\ \A j \in UsedEntriesFor(PoppedAt(i).head) :
                       UsedAfter[j].len = SumLen(PoppedAt(i).descs)

(***************************************************************************)
(* Properties of the configuration record and of the persisted state       *)
(***************************************************************************)
\* offsets of hint_cmd_id and poison_val in the record
HintCmdIdOffset == CONFIG_ACTUAL_OFFSET + 4
PoisonValOffset == CONFIG_ACTUAL_OFFSET + 8
\* the step was a write_config of four bytes at the offset
AcceptedWriteAt(offset) ==
    /\ last'.op = "write_config"
    /\ last'.offset = offset
    /\ Len(last'.data) = CONFIG_ACTUAL_SIZE

\* C18: no step of the lifecycle (resize, activate, reset, pause, resume, a
\* dispatch, a timer expiry, a refused write) changes hint_cmd_id or
\* poison_val, and `actual` and `hetero_actual` change only in a step that is
\* a write_config of four bytes at offset 4 and at offset 20 respectively.
C18_GuestFieldsFrame ==
    [][/\ Field(config', HintCmdIdOffset) = Field(config, HintCmdIdOffset)
       /\ Field(config', PoisonValOffset) = Field(config, PoisonValOffset)
       /\ Field(config', CONFIG_ACTUAL_OFFSET) # Field(config, CONFIG_ACTUAL_OFFSET)
              => AcceptedWriteAt(CONFIG_ACTUAL_OFFSET)
       /\ Field(config', CONFIG_HETERO_ACTUAL_OFFSET)
              # Field(config, CONFIG_HETERO_ACTUAL_OFFSET)
              => AcceptedWriteAt(CONFIG_HETERO_ACTUAL_OFFSET)]_vars

\* the guest wrote both of its fields, the host resized the balloon, and a
\* dispatch has run since: the guest's fields hold what the guest wrote
C18_Witness ==
    /\ IsDispatch
    /\ Field(config, CONFIG_ACTUAL_OFFSET) = <<17, 34, 51, 68>>
    /\ Field(config, CONFIG_HETERO_ACTUAL_OFFSET) = <<17, 34, 51, 68>>
    /\ Field(config, CONFIG_NUM_PAGES_OFFSET) = AsU32Bytes(512)
    /\ Field(config, HintCmdIdOffset) = AsU32Bytes(0)

(***************************************************************************)
(* Properties of reset                                                     *)
(***************************************************************************)
\* C19: a reset leaves avail_features, acked_features and config as they
\* were, and on an activated device it returns the injector that the
\* activate which started the device was given.
C19_ResetKeepsState ==
    [][last'.op = "reset" =>
          /\ avail_features' = avail_features
          /\ acked_features' = acked_features
          /\ config' = config
          /\ DeviceActivated => last'.ret = interrupt_cb]_vars

\* a device activated with the second injector, after features were
\* acknowledged and the configuration had changed, is reset and returns it
C19_Witness ==
    /\ last.op = "reset"
    /\ last.ret = Some("irq2")
    /\ acked_features # {}
    /\ config # DefaultConfig
    /\ last.before.config = config

(***************************************************************************)
(* Properties of activate                                                  *)
(***************************************************************************)
\* C20: on a host whose page size is not 1 << 12 every activate is refused
\* with BadActivate, no worker is spawned, no handler exists, no event is
\* registered and no event is ever dispatched.
C20_PageSizeRefused ==
    page_size # Shl(1, VIRTIO_BALLOON_PFN_SHIFT) =>
        /\ last.op = "activate" =>
               last.res \in {"BadActivate:queues", "BadActivate:timerfd",
                             "BadActivate:page_size"}
        /\ worker = "none"
        /\ ~handler.some
        /\ registered = {}
        /\ ~IsDispatch

\* an activate with enough queues and a timerfd refused for the page size
C20_Witness ==
    /\ page_size = 16384
    /\ last.op = "activate"
    /\ last.nq = 6
    /\ last.res = "BadActivate:page_size"

(***************************************************************************)
(* Properties of a dispatch on an empty available ring                     *)
(***************************************************************************)
\* a drain that found the available ring of its queue empty
EmptyDrain == IsDrain /\ last.pre.avail = <<>>
\* what the dispatch did after the read of the queue's eventfd
AfterRead == {i \in 1..Len(last.log) : last.log[i].e # "read"}

\* C21, as stated: a dispatch on a queue whose available ring is empty returns
\* Ok, does nothing after the read of the eventfd (no memory operation, no
\* store, no used entry, no interrupt, no timer reset) and leaves the rings,
\* the counters, the timer and the latched stats queue index as they were.
C21_AsStated ==
    EmptyDrain =>
        /\ last.err = Ok
        /\ AfterRead = {}
        /\ UsedAfter = last.pre.used
        /\ AvailAfter = <<>>
        /\ counters = last.pre.counters
        /\ timer = last.pre.timer
        /\ handler.val.stats_queue_index = last.pre.stats_queue_index

(***************************************************************************)
(* Properties of the latched stats queue index                             *)
(***************************************************************************)
\* the guest has made no chain available on the stats queue so far
NoStatsChainYet == next_head = 0 \/ guest_queue # Some(Stats)
StatsQueueIndex == handler.val.stats_queue_index

\* C22, as stated: a timer event handled before any stats chain was seen
\* returns MemoryStatistic and raises no interrupt; the stats queue index is
\* latched only by a dispatch that saw a stats chain; once latched it is the
\* index of the Stats role and a dispatch never changes it.
C22_AsStated ==
    /\ (IsDispatch /\ last.ev = STATS_TIMER_EVENT /\ NoStatsChainYet) =>
           last.err = Err("MemoryStatistic") /\ TriggersAt = {}
    /\ (handler.some /\ StatsQueueIndex.some) =>
           /\ ~NoStatsChainYet
           /\ StatsQueueIndex.val = handler.val.queue_indices[Stats]
    /\ (IsDispatch /\ StatsQueueIndex # last.pre.stats_queue_index) =>
           /\ ~last.pre.stats_queue_index.some
           /\ DrainedQueue = Stats /\ PopsAt # {}

(***************************************************************************)
(* Properties of Release                                                   *)
(***************************************************************************)
\* a drain of a queue whose memory operation is Release
ReleaseDrain == IsDrain /\ DrainedQueue \in {Inflate, HeteroInflate, Reporting}
OutsideRegions(base) ==
    \A r \in 1..Len(Regions) :
        base < Regions[r].start \/ base >= Regions[r].start + Regions[r].len
\* the call at position i of the log advised a range of region r
AdvisedIn(i, r) ==
    /\ last.log[i].e = "madvise"
    /\ last.log[i].addr >= Regions[r].host
    /\ last.log[i].addr < Regions[r].host + Regions[r].len
\* the hole-punch that goes with the advice at position i, in region r
PunchFor(i, r) ==
    [e |-> "fallocate64", fd |-> Regions[r].file.val.fd, mode |-> "PUNCH_HOLE|KEEP_SIZE",
     offset |-> (last.log[i].addr - Regions[r].host) + Regions[r].file.val.start,
     len |-> last.log[i].len, ok |-> TRUE]
\* the range bases of the chain the drain stopped at, in processing order
LastBases ==
    IF DrainedQueue = Reporting
    THEN [k \in 1..Len(LastChain.descs) |-> LastChain.descs[k].addr]
    ELSE [k \in 1..Len(LastChain.data) |->
             Shl(LastChain.data[k], VIRTIO_BALLOON_PFN_SHIFT)]
AdvisedAfterLastPop == {i \in EventsAt("madvise") : i > LastPop}

\* C23: in a drain that releases, every advice is DONTNEED on a range of some
\* region; in a region with a file it comes right after a successful
\* hole-punch (keep size) of the same length on that file at offset
\* range_base - region_start + file_start, in an anonymous region no
\* hole-punch precedes it; a hole-punch that fails is the last call and the
\* drain returns FallocateFail; a successful one is followed by its advice;
\* and when the drain returns GuestMemory the range it stopped at lies outside
\* every region and no hole-punch or advice was made for it.
C23_Release ==
    ReleaseDrain =>
        /\ \A i \in EventsAt("madvise") :
               /\ last.log[i].advice = "MADV_DONTNEED"
               /\ \E r \in 1..Len(Regions) :
                      /\ AdvisedIn(i, r)
                      /\ IF Regions[r].file.some
                         THEN i > 1 /\ last.log[i - 1] = PunchFor(i, r)
                         ELSE i = 1 \/ last.log[i - 1].e # "fallocate64"
        /\ \A i \in EventsAt("fallocate64") :
               IF last.log[i].ok
               THEN i < Len(last.log) /\ last.log[i + 1].e = "madvise"
               ELSE i = Len(last.log) /\ last.err = Err("FallocateFail")
        /\ last.err.kind = "GuestMemory" =>
               /\ Cardinality(AdvisedAfterLastPop) < Len(LastBases)
               /\ OutsideRegions(LastBases[Cardinality(AdvisedAfterLastPop) + 1])
               /\ last.log[Len(last.log)].e \in {"pop", "madvise"}

\* a page of the anonymous region was advised alone, then the hole-punch for
\* a page of the region with a file failed
C23_Witness ==
    /\ ReleaseDrain
    /\ last.err = Err("FallocateFail")
    /\ \E i \in EventsAt("madvise") : AdvisedIn(i, 1)

(***************************************************************************)
(* Properties of pause and resume                                          *)
(***************************************************************************)
\* pause() has returned and resume() was not called since
PauseHeld == paused /\ ~Pausing
\* the readiness of a queue that is left when resume() returns is served,
\* unless the device is paused again, reset or dropped first
ServedAfterResume(ev) ==
    (last.op = "resume" /\ ev \in ready /\ ev \in registered)
        ~> ((IsDispatch /\ last.ev = ev) \/ paused \/ Dropping \/ ~handler.some)

C25_AsStated ==
    /\ [](common.epoll_threads.some => common.epoll_threads.val = 1)
    /\ Dropping ~> Dropped
    /\ [](Dropped => ~handler.some /\ registered = {})
    /\ [][last.op \in {"drop", "reset"} => last'.op # "handle_event"]_vars

(***************************************************************************)
(* Properties of a restored device                                         *)
(***************************************************************************)
\* the device was built by new() with a state
Restored == snapshot.some

\* C26: a device is paused after new() iff it was given a state; and while a
\* restored device is paused (and no pause() is under way) the next step is
\* never a dispatch, and only resume() ends the pause.
C26_RestoredStartsPaused ==
    /\ [](last.op = "new" => paused = Restored)
    /\ [][Restored /\ PauseHeld =>
              /\ last'.op # "handle_event"
              /\ paused' \/ last'.op = "resume"]_vars

\* the worker of a restored device that was activated is parked, with the
\* first chain of the guest waiting on the inflate queue
C26_Witness ==
    /\ Restored
    /\ PauseHeld
    /\ worker = "parked"
    /\ last.op = "guest_submit"
    /\ next_head = 1
    /\ INFLATE_QUEUE_EVENT \in ready
    /\ \A i \in 1..Len(queues) : queues[i].used = <<>>

(***************************************************************************)
(* Properties of the handler's queue wiring                                *)
(***************************************************************************)
RoleOrder == <<Inflate, Deflate, Stats, Reporting, HeteroInflate, HeteroDeflate>>
QueueIndices == handler.val.queue_indices

\* C27: in the handler activate built, a role has an index iff its eventfd is
\* present (Inflate and Deflate always); the indices are distinct, within the
\* queue vector and increasing in the order of the roles; the timer is
\* present iff the stats queue's eventfd is; and every queue event the worker
\* registered has its role in the map.
C27_QueueWiring ==
    handler.some =>
        /\ \A ev \in QueueEvents :
               EventFdPresent(handler.val, ev) <=> EventQueue(ev) \in DOMAIN QueueIndices
        /\ {Inflate, Deflate} \subseteq DOMAIN QueueIndices
        /\ \A r \in DOMAIN QueueIndices :
               QueueIndices[r] >= 0 /\ QueueIndices[r] < Len(queues)
        /\ \A i, j \in 1..Len(RoleOrder) :
               (i < j /\ RoleOrder[i] \in DOMAIN QueueIndices
                      /\ RoleOrder[j] \in DOMAIN QueueIndices) =>
                   QueueIndices[RoleOrder[i]] < QueueIndices[RoleOrder[j]]
        /\ handler.val.stats_timer_evt <=> handler.val.stats_queue_evt
        /\ \A ev \in registered \cap QueueEvents :
               /\ EventQueue(ev) \in DOMAIN QueueIndices
               /\ QueueIndices[EventQueue(ev)] + 1 \in DOMAIN queues

\* the guest acknowledged reporting and heterogeneous memory but not the
\* statistics queue: reporting has index 2, and the worker registered it
C27_Witness ==
    /\ handler.some
    /\ Stats \notin DOMAIN QueueIndices
    /\ Reporting \in DOMAIN QueueIndices
    /\ QueueIndices[Reporting] = 2
    /\ HeteroDeflate \in DOMAIN QueueIndices
    /\ REPORTING_QUEUE_EVENT \in registered

(***************************************************************************)
(* Properties of the descriptors after the head                            *)
(***************************************************************************)
\* the log between the pop at i and the next pop (or the end of the dispatch)
Segment(i) == {j \in 1..Len(last.log) : j > i /\ \A k \in PopsAt : k > i => j < k}
\* the memory operations, and the counter stores, made for the chain popped at i
MemoryOpsFor(i) == {j \in Segment(i) : last.log[j].e = "madvise"}
StoresFor(i) == {j \in Segment(i) : last.log[j].e = "store"}
\* the number of elements the head descriptor of a chain announces
HeadElements(chain, queue) == chain.descs[1].len \div ElementSize(queue)
\* the head descriptor alone is a good request: readable, a whole number of
\* elements, each of them a PFN inside a region or a record with a known tag
HeadFine(chain, queue) ==
    /\ chain.descs # <<>>
    /\ ~chain.descs[1].wo
    /\ chain.descs[1].len % ElementSize(queue) = 0
    /\ Len(chain.data) >= HeadElements(chain, queue)
    /\ \A k \in 1..HeadElements(chain, queue) :
           IF queue = Stats
           THEN chain.data[k].tag \in 0..15
           ELSE ~OutsideRegions(Shl(chain.data[k], VIRTIO_BALLOON_PFN_SHIFT))
\* no call made for the chain popped at i failed in the host
SegmentCallsOk(i) == \A j \in Segment(i) : last.log[j].e = "store" \/ last.log[j].ok

\* C28: on the inflate, deflate, heterogeneous and stats queues a chain is
\* judged by its head alone: a chain whose head is a good request is
\* processed whatever descriptors follow, and a processed chain gets head
\* length / 4 memory operations and no store on a PFN queue, head length / 10
\* stores and no memory operation on the stats queue; no chain gets more.
C28_OnlyHead ==
    IsDrain /\ DrainedQueue # Reporting =>
        \A i \in PopsAt :
            /\ (HeadFine(PoppedAt(i), DrainedQueue) /\ SegmentCallsOk(i)) => Processed(i)
            /\ Processed(i) =>
                   Cardinality(IF DrainedQueue = Stats THEN StoresFor(i)
                               ELSE MemoryOpsFor(i))
                       = HeadElements(PoppedAt(i), DrainedQueue)
            /\ PoppedAt(i).descs # <<>> =>
                   Cardinality(MemoryOpsFor(i) \cup StoresFor(i))
                       <= HeadElements(PoppedAt(i), DrainedQueue)
            /\ (IF DrainedQueue = Stats THEN MemoryOpsFor(i) ELSE StoresFor(i)) = {}

\* a stats chain of two descriptors was processed with one store
C28_Witness ==
    /\ IsDrain
    /\ DrainedQueue = Stats
    /\ \E i \in PopsAt :
           /\ Len(PoppedAt(i).descs) = 2
           /\ Processed(i)
           /\ Cardinality(StoresFor(i)) = 1

(***************************************************************************)
(* Properties of a chain whose processing failed                           *)
(***************************************************************************)
HeadSet(chains) == {chains[k].head : k \in 1..Len(chains)}
IdSet(ring) == {ring[k].id : k \in 1..Len(ring)}
\* the rings of queue qi before a step, empty before the queues exist
RingsOf(qs, qi) == IF qi <= Len(qs) THEN qs[qi] ELSE [avail |-> <<>>, used |-> <<>>]
\* every chain the guest ever gave has its own head index, below next_head,
\* and is in at most one place
HeadsFresh ==
    /\ \A qi \in 1..Len(queues) :
           /\ HeadSet(queues[qi].avail) \cup IdSet(queues[qi].used) \subseteq 0..(next_head - 1)
           /\ HeadSet(queues[qi].avail) \cap IdSet(queues[qi].used) = {}
           /\ Cardinality(HeadSet(queues[qi].avail)) = Len(queues[qi].avail)
           /\ Cardinality(IdSet(queues[qi].used)) = Len(queues[qi].used)
    /\ \A qi, qj \in 1..Len(queues) :
           qi # qj =>
               (HeadSet(queues[qi].avail) \cup IdSet(queues[qi].used))
                   \cap (HeadSet(queues[qj].avail) \cup IdSet(queues[qj].used)) = {}
\* a step brings no old chain back: what is in an available ring after it was
\* there before it or is the guest's new chain; what it adds to a used ring
\* was popped from that queue's available ring by this very dispatch
NoChainComesBack ==
    \A qi \in 1..Len(queues') :
        /\ HeadSet(queues'[qi].avail) \subseteq
               HeadSet(RingsOf(queues, qi).avail) \cup {next_head}
        /\ IdSet(queues'[qi].used) \ IdSet(RingsOf(queues, qi).used) \subseteq
               HeadSet(RingsOf(queues, qi).avail) \ HeadSet(queues'[qi].avail)
        /\ IdSet(queues'[qi].used) # IdSet(RingsOf(queues, qi).used) =>
               /\ last'.op = "handle_event"
               /\ last'.on_queue
               /\ last'.queue_index = qi - 1
               /\ HeadSet(PoppedChains') \subseteq HeadSet(RingsOf(queues, qi).avail)
\* the drain failed on the last chain it popped
FailedDrain == IsDrain /\ last.err.kind \in ChainErrors
\* the failed chain is in neither ring of its queue, what was stored before
\* the failure is in the counters, and no advice of the dispatch reverses
\* another
FailedChainGone ==
    FailedDrain =>
        /\ LastChain.head \notin HeadSet(AvailAfter)
        /\ LastChain.head \notin IdSet(UsedAfter)
        /\ counters = CountersAfterStores
        /\ \A j \in EventsAt("madvise") :
               last.log[j].advice =
                   IF DrainedQueue \in {Deflate, HeteroDeflate}
                   THEN "MADV_WILLNEED" ELSE "MADV_DONTNEED"
\* the counters change by the stores of a dispatch alone
CountersStay == counters' # counters => last'.op = "handle_event" /\ StoresAt' # {}

\* C29: a chain on which processing failed is taken from the available ring
\* and gets no used entry; no later step brings a chain back into an
\* available ring, and a dispatch pops and marks used only chains that were
\* in its queue's available ring, so the failed chain is never processed
\* again and never gets a used entry; the counters stored before the failure
\* stay as stored until a later dispatch stores again.
C29_FailedChainGone ==
    /\ [](HeadsFresh /\ FailedChainGone)
    /\ [][NoChainComesBack /\ CountersStay]_vars

\* after a drain that failed on a chain with a stored record, a later drain
\* of the same queue went on with the chains behind the failed one
C29_Witness ==
    /\ IsDrain
    /\ DrainedQueue = Stats
    /\ PopsAt # {}
    /\ StoresAt = {}
    /\ last.pre.used = <<>>
    /\ counters # [tag \in 0..15 |-> 0]
    /\ \E h \in 0..(next_head - 1) :
           /\ h < PoppedChains[1].head
           /\ h \notin HeadSet(PoppedChains)
           /\ \A qi \in 1..Len(queues) :
                  h \notin HeadSet(queues[qi].avail) \cup IdSet(queues[qi].used)

=============================================================================
